---- MODULE Spec2Model ----
(***************************************************************************)
(* The Dashboard of github-account-tracker (components/Dashboard.tsx) and  *)
(* the GitHubApiService it drives (services/githubApi.ts): loading the     *)
(* following and starred collections page by page, resolving mutual        *)
(* follows, and the bulk unfollow / bulk unstar jobs.                      *)
(*                                                                         *)
(* React state is one variable per useState cell, under the source's name. *)
(* Every running async handler is a record holding its closure (the values *)
(* it captured, its locals) and its position (pc): an action is the code   *)
(* that runs between two awaits.  The remote service is part of the state: *)
(* what the account follows and has starred, who follows back, and how     *)
(* many requests have failed so far.                                       *)
(***************************************************************************)
EXTENDS Integers, Sequences, FiniteSets, TLC

(***************************************************************************)
(* Bounds of the model.                                                    *)
(***************************************************************************)
\* accounts followed by the viewer in the Dashboard specification
MaxFollowing == 6
\* repositories starred by the viewer in the Dashboard specification
MaxStarred == 6
\* size of a remote collection in the collector specification
MaxRemote == 201
\* how far below the admission threshold of a whole-collection job the
\* rate-limit endpoint's answers go
QuotaSpan == 2
\* requests that fail (non-2xx answer or network error) in one behaviour
MaxFaults == 1
\* followed accounts that follow the viewer back
MaxMutual == 1
\* fetchData calls in flight at once
MaxLoads == 2
\* the user uses the unfollow and unstar buttons of the cards of the first
\* MaxClicked followed users and starred repositories only
MaxClicked == 1
\* followed users of the account in the interleaving specification
MaxRace == 2
\* followed users of the account in the resolution specification
MaxResolve == 11
\* followed users of the account in the overlap specification
MaxOverlap == 6

(***************************************************************************)
(* Constants of the program.                                               *)
(***************************************************************************)
\* githubApi.ts: const perPage = 100 in getAllFollowing / getAllStarredRepos
perPage == 100
\* Dashboard.tsx handleBulkUnfollow: const batchSize = 5
batchSize == 5
\* Dashboard.tsx handleBulkUnstar: const batchSize = 5
unstarBatchSize == 5
\* Dashboard.tsx checkMutualFollows: const batchSize = 10
mutualBatchSize == 10
\* Dashboard.tsx handleBulkUnfollow: remaining < nonMutualUsers.length + 10
unfollowMargin == 10
\* Dashboard.tsx handleBulkUnstar: remaining < starredRepos.length + 10
unstarMargin == 10
\* Dashboard.tsx checkMutualFollows: remaining < following.length + 50
mutualMargin == 50
\* rateLimitInfo.rate.remaining < 10 in handleUnfollow and handleUnstar
singleMargin == 10

VARIABLES
  \* ---- the remote service
  remoteFollowing,        \* logins the viewer follows, in list order
  remoteStarred,          \* ids of the repositories the viewer starred
  followsBack,            \* logins that follow the viewer
  quotaAnswers,           \* the values GET /rate_limit answers as rate.remaining
  faults,                 \* requests that have failed so far
  \* ---- Dashboard state (useState cells)
  currentUser,
  following,
  starredRepos,
  isLoading,
  isLoadingStarred,
  isCheckingMutualFollows,
  isBulkUnfollowing,
  bulkUnfollowProgress,
  isBulkUnstarring,
  bulkUnstarProgress,
  error,
  rateLimit,
  activeTab,
  \* ---- effects waiting to run after a render
  fetchDataEffect,        \* useEffect(() => fetchData(), [fetchData])
  tabEffect,              \* useEffect on activeTab / collection lengths
  autoCheckEffect,        \* useEffect(..., [following, checkMutualFollows])
  \* ---- running handlers
  fetchDataCalls,         \* fetchData, one record per call in flight
  fetchStarredCall,       \* fetchStarredRepos
  checkCall,              \* checkMutualFollows
  bulkUnfollowCall,       \* handleBulkUnfollow
  bulkUnstarCall,         \* handleBulkUnstar
  \* ---- the cards' buttons
  unfollowingUsers,       \* useState: logins with handleUnfollow running
  unstarringRepos,        \* useState: ids with handleUnstar running
  unfollowCall,           \* handleUnfollow
  unstarCall,             \* handleUnstar
  \* ---- history
  lastJob                 \* the handler that returned last since the last
                          \* click that started one, and how

remoteVars == <<remoteFollowing, remoteStarred, followsBack, quotaAnswers,
               faults>>
flagVars == <<isLoading, isLoadingStarred, isCheckingMutualFollows,
              isBulkUnfollowing, isBulkUnstarring>>
progressVars == <<bulkUnfollowProgress, bulkUnstarProgress>>
collectionVars == <<currentUser, following, starredRepos>>
effectVars == <<fetchDataEffect, tabEffect, autoCheckEffect>>
callVars == <<fetchDataCalls, fetchStarredCall, checkCall, bulkUnfollowCall,
              bulkUnstarCall>>
singleVars == <<unfollowingUsers, unstarringRepos, unfollowCall, unstarCall>>
vars == <<remoteVars, flagVars, progressVars, collectionVars, error, rateLimit,
          activeTab, effectVars, callVars, singleVars, lastJob>>

(***************************************************************************)
(* Helpers.                                                                *)
(***************************************************************************)
Min(a, b) == IF a < b THEN a ELSE b

Range(s) == {s[k] : k \in DOMAIN s}

Iota(n) == [k \in 1..n |-> k]

\* The sequence s without its elements in dropped, order kept.
RECURSIVE FilterOut(_, _)
FilterOut(s, dropped) ==
  IF s = <<>> THEN <<>>
  ELSE IF Head(s) \in dropped THEN FilterOut(Tail(s), dropped)
       ELSE <<Head(s)>> \o FilterOut(Tail(s), dropped)

NoError == [kind |-> "none", remaining |-> 0]
\* setError(err.message) for an error thrown by a request
RequestError == [kind |-> "request", remaining |-> 0]
\* an insufficient-quota message that leaves the remaining quota out
InsufficientUnquoted(q) == [kind |-> "insufficient", remaining |-> 0]

\* setError(`Insufficient API calls remaining (${remaining}) ...`)
Insufficient(q) == [kind |-> "insufficient", remaining |-> q]

\* a request may fail only while the fault budget lasts
MayFail == faults < MaxFaults

(***************************************************************************)
(* GitHubApiService                                                        *)
(***************************************************************************)
\* getFollowing(page, perPage) / getStarredRepos(page, perPage): the remote
\* list's page, as GET ...?page=&per_page= answers it.
GetPage(remote, page, per) ==
  SubSeq(remote, (page - 1) * per + 1, Min(page * per, Len(remote)))

\* a loop that ends on an empty page only
CollectStepUntilEmpty(all, page, items) ==
  IF Len(items) = 0
    THEN [done |-> TRUE, all |-> all, page |-> page]
    ELSE [done |-> FALSE, all |-> all \o items, page |-> page + 1]

\* One turn of the while (true) loop of getAllFollowing (and of its copies
\* getAllFollowers, getAllStarredRepos) on the page just received:
\* an empty page breaks, a page is appended, a short page breaks, else page++.
CollectStep(all, page, items) ==
  IF Len(items) = 0
    THEN [done |-> TRUE, all |-> all, page |-> page]
    ELSE IF Len(items) < perPage
      THEN [done |-> TRUE, all |-> all \o items, page |-> page]
      ELSE [done |-> FALSE, all |-> all \o items, page |-> page + 1]

(***************************************************************************)
(* Dashboard: fetchData                                                    *)
(***************************************************************************)
\* followingUsers.map(user => ({...user, isFollowingMe: false,
\* isMutualFollow: false})).  isFollowingMe always equals isMutualFollow and
\* is left out.  probe is a history field: how the last reciprocity probe
\* for this record ended ("none" before any probe).
FreshRecord(login) ==
  [login |-> login, isMutualFollow |-> FALSE, probe |-> "none"]

FreshRecords(logins) == [k \in DOMAIN logins |-> FreshRecord(logins[k])]

\* all and page are getAllFollowing's locals allFollowing and page;
\* requests is a history field: the pages asked for so far.
IdleLoad == [pc |-> "idle", page |-> 0, all |-> <<>>, requests |-> <<>>]

\* what lastJob holds before any handler returned
NoJob == [op |-> "none", result |-> "none", requests |-> <<>>]

\* what lastJob holds for a handler that returned
Returned(op, result, requests) ==
  [op |-> op, result |-> result, requests |-> requests]

\* The call starts: setIsLoading(true); setError(null); both requests of
\* Promise.all([getCurrentUser(), getRateLimit()]) are issued.
FetchDataStart(k) ==
  /\ fetchDataCalls[k].pc = "idle"
  /\ \A j \in 1..(k - 1) : fetchDataCalls[j].pc # "idle"
  /\ fetchDataCalls' = [fetchDataCalls EXCEPT ![k] =
                          [IdleLoad EXCEPT !.pc = "user"]]
  /\ isLoading' = TRUE
  /\ error' = NoError

\* useEffect(() => { fetchData(); }, [fetchData]): on mount, and again when
\* fetchData's identity changed (apiService is rebuilt when
\* currentUser?.login changes).
FetchDataEffect ==
  /\ fetchDataEffect
  /\ fetchDataEffect' = FALSE
  /\ \E k \in 1..MaxLoads : FetchDataStart(k)
  /\ UNCHANGED <<singleVars,
                 remoteVars, isLoadingStarred, isCheckingMutualFollows,
                 isBulkUnfollowing, isBulkUnstarring, progressVars,
                 collectionVars, rateLimit, activeTab, tabEffect,
                 autoCheckEffect, fetchStarredCall, checkCall,
                 bulkUnfollowCall, bulkUnstarCall, lastJob>>

\* The Dashboard renders only a spinner while isLoading && !currentUser.
DashboardShown == ~(isLoading /\ currentUser = "")

\* The refresh button: disabled={isLoading || isCheckingMutualFollows ||
\* isBulkUnstarring || isLoadingTopics}.
RefreshEnabled ==
  DashboardShown /\ ~isLoading /\ ~isCheckingMutualFollows /\ ~isBulkUnstarring

\* handleRefresh on the following tab: fetchData().
HandleRefreshFollowing ==
  /\ RefreshEnabled
  /\ activeTab = "following"
  /\ \E k \in 1..MaxLoads : FetchDataStart(k)
  /\ lastJob' = NoJob
  /\ UNCHANGED <<singleVars,
                 remoteVars, isLoadingStarred, isCheckingMutualFollows,
                 isBulkUnfollowing, isBulkUnstarring, progressVars,
                 collectionVars, rateLimit, activeTab, effectVars,
                 fetchStarredCall, checkCall, bulkUnfollowCall, bulkUnstarCall>>

\* a catch that shows the pages collected before the failure
FetchDataFailPartial(k) ==
  /\ MayFail
  /\ faults' = faults + 1
  /\ fetchDataCalls' = [fetchDataCalls EXCEPT ![k] = IdleLoad]
  /\ lastJob' = Returned("fetchData", "failed", fetchDataCalls[k].requests)
  /\ error' = RequestError
  /\ isLoading' = FALSE
  /\ following' = FreshRecords(fetchDataCalls[k].all)
  /\ UNCHANGED <<remoteFollowing, remoteStarred, followsBack, quotaAnswers,
                 currentUser, starredRepos, rateLimit, fetchDataEffect,
                 autoCheckEffect>>

\* The catch and finally of fetchData: setError(err.message);
\* setIsLoading(false).
FetchDataFail(k) ==
  /\ MayFail
  /\ faults' = faults + 1
  /\ fetchDataCalls' = [fetchDataCalls EXCEPT ![k] = IdleLoad]
  /\ lastJob' = Returned("fetchData", "failed", fetchDataCalls[k].requests)
  /\ error' = RequestError
  /\ isLoading' = FALSE
  /\ UNCHANGED <<remoteFollowing, remoteStarred, followsBack, quotaAnswers,
                 collectionVars, rateLimit, fetchDataEffect, autoCheckEffect>>

\* Promise.all([getCurrentUser(), getRateLimit()]) settles.  Fulfilled:
\* setCurrentUser(user); setRateLimit(rateLimitInfo); getAllFollowing()
\* issues the request for page 1.  A changed currentUser.login rebuilds
\* apiService and with it fetchData, so the fetchData effect runs again.
FetchDataUser(k) ==
  /\ fetchDataCalls[k].pc = "user"
  /\ \/ /\ currentUser' = "viewer"
        /\ rateLimit' \in quotaAnswers
        /\ fetchDataEffect' = (fetchDataEffect \/ currentUser # "viewer")
        /\ autoCheckEffect' = (autoCheckEffect \/ currentUser # "viewer")
        /\ fetchDataCalls' = [fetchDataCalls EXCEPT ![k].pc = "page",
                                                     ![k].page = 1,
                                                     ![k].requests = <<1>>]
        /\ UNCHANGED <<remoteVars, following, starredRepos, isLoading, error,
                       lastJob>>
     \/ FetchDataFail(k)
  /\ UNCHANGED <<singleVars,
                 isLoadingStarred, isCheckingMutualFollows, isBulkUnfollowing,
                 isBulkUnstarring, progressVars, activeTab, tabEffect,
                 fetchStarredCall, checkCall, bulkUnfollowCall, bulkUnstarCall>>

\* getFollowing(page, perPage) settles inside getAllFollowing.  Fulfilled:
\* one turn of the loop, which either asks for the next page or returns, and
\* then setFollowing(fresh records); setIsLoading(false).
FetchDataPage(k) ==
  /\ fetchDataCalls[k].pc = "page"
  /\ \/ LET c == fetchDataCalls[k]
            step == CollectStep(c.all, c.page,
                                GetPage(remoteFollowing, c.page, perPage))
        IN  /\ IF step.done
                 THEN /\ following' = FreshRecords(step.all)
                      /\ isLoading' = FALSE
                      /\ fetchDataCalls' =
                           [fetchDataCalls EXCEPT ![k] = IdleLoad]
                      /\ lastJob' = Returned("fetchData", "ok", c.requests)
                      /\ autoCheckEffect' = TRUE
                 ELSE /\ fetchDataCalls' =
                           [fetchDataCalls EXCEPT
                              ![k].all = step.all,
                              ![k].page = step.page,
                              ![k].requests = Append(c.requests, step.page)]
                      /\ UNCHANGED <<following, isLoading, lastJob,
                                     autoCheckEffect>>
            /\ UNCHANGED <<remoteVars, currentUser, starredRepos, error,
                           rateLimit, fetchDataEffect>>
     \/ FetchDataFail(k)
  /\ UNCHANGED <<singleVars,
                 isLoadingStarred, isCheckingMutualFollows, isBulkUnfollowing,
                 isBulkUnstarring, progressVars, activeTab, tabEffect,
                 fetchStarredCall, checkCall, bulkUnfollowCall, bulkUnstarCall>>

(***************************************************************************)
(* Dashboard: fetchStarredRepos and the tab effect                         *)
(***************************************************************************)
IdleStarLoad == [pc |-> "idle", page |-> 0, all |-> <<>>, requests |-> <<>>]

\* fetchStarredRepos up to its first await: if (starredRepos.length > 0)
\* return; setIsLoadingStarred(true); setError(null); getAllStarredRepos()
\* issues the request for page 1.
FetchStarredStart ==
  /\ fetchStarredCall.pc = "idle"
  /\ IF Len(starredRepos) > 0
       THEN UNCHANGED <<fetchStarredCall, isLoadingStarred, error>>
       ELSE /\ fetchStarredCall' = [IdleStarLoad EXCEPT !.pc = "page",
                                                        !.page = 1,
                                                        !.requests = <<1>>]
            /\ isLoadingStarred' = TRUE
            /\ error' = NoError

\* useEffect(..., [activeTab, followers.length, starredRepos.length, ...]):
\* on the starred tab with an empty list, fetchStarredRepos().
TabEffect ==
  /\ tabEffect
  /\ tabEffect' = FALSE
  /\ IF activeTab = "starred" /\ Len(starredRepos) = 0
       THEN FetchStarredStart
       ELSE UNCHANGED <<fetchStarredCall, isLoadingStarred, error>>
  /\ UNCHANGED <<singleVars,
                 remoteVars, isLoading, isCheckingMutualFollows,
                 isBulkUnfollowing, isBulkUnstarring, progressVars,
                 collectionVars, rateLimit, activeTab, fetchDataEffect,
                 autoCheckEffect, fetchDataCalls, checkCall, bulkUnfollowCall,
                 bulkUnstarCall, lastJob>>

\* A click on a tab: setActiveTab(tab).
SetActiveTab(tab) ==
  /\ DashboardShown
  /\ activeTab # tab
  /\ activeTab' = tab
  /\ tabEffect' = TRUE
  /\ UNCHANGED <<singleVars,
                 remoteVars, flagVars, progressVars, collectionVars, error,
                 rateLimit, fetchDataEffect, autoCheckEffect, callVars,
                 lastJob>>

\* handleRefresh on the starred tab: setStarredRepos([]);
\* fetchStarredRepos().  The callback still sees the length of the list it
\* was built with: it returns at once for a loaded list, and the reload is
\* started by the tab effect once the list is empty.
HandleRefreshStarred ==
  /\ RefreshEnabled
  /\ activeTab = "starred"
  /\ FetchStarredStart
  /\ starredRepos' = <<>>
  /\ tabEffect' = (tabEffect \/ Len(starredRepos) > 0)
  /\ lastJob' = NoJob
  /\ UNCHANGED <<singleVars,
                 remoteVars, isLoading, isCheckingMutualFollows,
                 isBulkUnfollowing, isBulkUnstarring, progressVars,
                 currentUser, following, rateLimit, activeTab, fetchDataEffect,
                 autoCheckEffect, fetchDataCalls, checkCall, bulkUnfollowCall,
                 bulkUnstarCall>>

\* getStarredRepos(page, perPage) settles inside getAllStarredRepos.
\* Fulfilled: one turn of the loop, then setStarredRepos(starred);
\* setIsLoadingStarred(false).  Rejected: setError(err.message);
\* setIsLoadingStarred(false).
FetchStarredPage ==
  /\ fetchStarredCall.pc = "page"
  /\ \/ LET c == fetchStarredCall
            step == CollectStep(c.all, c.page,
                                GetPage(remoteStarred, c.page, perPage))
        IN  /\ IF step.done
                 THEN /\ starredRepos' = step.all
                      /\ tabEffect' = (tabEffect \/
                                       Len(step.all) # Len(starredRepos))
                      /\ isLoadingStarred' = FALSE
                      /\ fetchStarredCall' = IdleStarLoad
                      /\ lastJob' = Returned("fetchStarredRepos", "ok",
                                              c.requests)
                 ELSE /\ fetchStarredCall' =
                           [c EXCEPT !.all = step.all,
                                     !.page = step.page,
                                     !.requests = Append(c.requests, step.page)]
                      /\ UNCHANGED <<starredRepos, tabEffect, isLoadingStarred,
                                     lastJob>>
            /\ UNCHANGED <<faults, error>>
     \/ /\ MayFail
        /\ faults' = faults + 1
        /\ fetchStarredCall' = IdleStarLoad
        /\ lastJob' = Returned("fetchStarredRepos", "failed",
                                fetchStarredCall.requests)
        /\ error' = RequestError
        /\ isLoadingStarred' = FALSE
        /\ UNCHANGED <<starredRepos, tabEffect>>
  /\ UNCHANGED <<singleVars,
                 remoteFollowing, remoteStarred, followsBack, quotaAnswers,
                 isLoading,
                 isCheckingMutualFollows, isBulkUnfollowing, isBulkUnstarring,
                 progressVars, currentUser, following, rateLimit, activeTab,
                 fetchDataEffect, autoCheckEffect, fetchDataCalls, checkCall,
                 bulkUnfollowCall, bulkUnstarCall>>

(***************************************************************************)
(* Dashboard: checkMutualFollows                                           *)
(***************************************************************************)
\* a reading of the answer that takes everything but 404 for a follow
EverythingButNotFound(status) == status # 404

\* checkIfIAmFollowedBy(username): GET /users/{username}/following/{viewer}
\* answers 204 or 404; return response.status === 204.  Any other status is
\* false as well, and so is a rejected fetch (catch { return false }), for
\* which the status is 0 here.
CheckIfIAmFollowedBy(status) == status = 204

\* the status the service answers when the probe is served
ProbeStatus(login) == IF login \in followsBack THEN 204 ELSE 404

\* the statuses of a probe that is not served: forbidden, rate-limited,
\* server error, network error
FaultStatuses == {403, 429, 500, 0}

\* the statuses by which the service refuses a probe: the credential is
\* forbidden, the quota is used up
RefusedStatuses == {403, 429}

\* a service built once on mount, before the current user is known
ApiServiceAtMount == ""

\* useMemo(() => new GitHubApiService({...config,
\* username: currentUser?.login}), [config, currentUser?.login]): the
\* username the service of the current render holds, "" for undefined.
ApiServiceUsername == currentUser

\* ${this.config.username || 'me'}: the last segment of the probe's path
ViewerKey(username) == IF username = "" THEN "me" ELSE username

\* following is the list of the render the callback closed over,
\* updatedFollowing and i are its locals, viewerKey is the key the service
\* it closed over probes with; pending holds the positions whose probe has
\* not settled.  History fields: probes lists the logins probed, in call
\* order; refused holds the positions whose probe was refused.
IdleCheck == [pc |-> "idle", following |-> <<>>, updatedFollowing |-> <<>>,
              i |-> 0, pending |-> {}, probes |-> <<>>, viewerKey |-> "",
              refused |-> {}]

\* The members of the batch slice(i, i + size) of a list of n entries, as
\* positions 1..n.
Batch(i, size, n) == (i + 1)..Min(i + size, n)

\* The Check Mutual button is rendered.
CheckMutualShown ==
  /\ DashboardShown
  /\ activeTab = "following"
  /\ ~isCheckingMutualFollows
  /\ Len(following) > 0

\* checkMutualFollows up to its first await: if (following.length === 0)
\* return; setIsCheckingMutualFollows(true); setError(null); getRateLimit()
\* is issued.  The closure holds the following list of the render.
CheckMutualFollows ==
  /\ CheckMutualShown
  /\ checkCall.pc = "idle"
  /\ IF Len(following) = 0
       THEN UNCHANGED <<checkCall, isCheckingMutualFollows, error, lastJob>>
       ELSE /\ checkCall' = [IdleCheck EXCEPT
                                 !.pc = "quota",
                                 !.following = following,
                                 !.viewerKey = ViewerKey(ApiServiceUsername)]
            /\ lastJob' = NoJob
            /\ isCheckingMutualFollows' = TRUE
            /\ error' = NoError
  /\ UNCHANGED <<singleVars,
                 remoteVars, isLoading, isLoadingStarred, isBulkUnfollowing,
                 isBulkUnstarring, progressVars, collectionVars, rateLimit,
                 activeTab, effectVars, fetchDataCalls, fetchStarredCall,
                 bulkUnfollowCall, bulkUnstarCall>>

\* useEffect(..., [following, checkMutualFollows]), run after a render with
\* a new following list or a new apiService: if (following.length > 0 &&
\* !following.some(user => user.isMutualFollow !== undefined))
\* checkMutualFollows().  A flag is defined when it is true or false.
AutoCheckEffect ==
  /\ autoCheckEffect
  /\ autoCheckEffect' = FALSE
  /\ IF /\ Len(following) > 0
        /\ ~\E k \in DOMAIN following :
              following[k].isMutualFollow \in BOOLEAN
       THEN /\ checkCall.pc = "idle"
            /\ checkCall' = [IdleCheck EXCEPT
                                 !.pc = "quota",
                                 !.following = following,
                                 !.viewerKey = ViewerKey(ApiServiceUsername)]
            /\ isCheckingMutualFollows' = TRUE
            /\ error' = NoError
       ELSE UNCHANGED <<checkCall, isCheckingMutualFollows, error>>
  /\ UNCHANGED <<singleVars,
                 remoteVars, isLoading, isLoadingStarred, isBulkUnfollowing,
                 isBulkUnstarring, progressVars, collectionVars, rateLimit,
                 activeTab, fetchDataEffect, tabEffect, fetchDataCalls,
                 fetchStarredCall, bulkUnfollowCall, bulkUnstarCall, lastJob>>

\* an admission test with the margin of the bulk jobs
CheckMutualDeniedAtTen(remaining, n) == remaining < n + unfollowMargin

\* The admission test of checkMutualFollows:
\* rateLimitInfo.rate.remaining < following.length + 50.
CheckMutualDenied(remaining, n) == remaining < n + mutualMargin

\* updatedFollowing = [...following]; the loop is entered and the probes of
\* the first batch are issued.
CheckMutualFirstBatch ==
  [checkCall EXCEPT
     !.pc = "probing",
     !.updatedFollowing = checkCall.following,
     !.i = 0,
     !.pending = Batch(0, mutualBatchSize, Len(checkCall.following)),
     !.probes = SubSeq([k \in DOMAIN checkCall.following
                          |-> checkCall.following[k].login],
                       1, Min(mutualBatchSize, Len(checkCall.following)))]

\* a denial that sets the error and goes on into the loop
CheckMutualDenyNoReturn(q) ==
  /\ error' = Insufficient(q)
  /\ checkCall' = CheckMutualFirstBatch
  /\ UNCHANGED <<isCheckingMutualFollows, lastJob>>

\* The denial of checkMutualFollows: setError(`Insufficient ...`); return,
\* through finally: setIsCheckingMutualFollows(false).
CheckMutualDeny(q) ==
  /\ error' = Insufficient(q)
  /\ isCheckingMutualFollows' = FALSE
  /\ checkCall' = IdleCheck
  /\ lastJob' = Returned("checkMutualFollows", "denied", <<>>)

\* getRateLimit() settles.  Fulfilled: setRateLimit(rateLimitInfo); when
\* denied, setError(Insufficient ...) and return through finally; otherwise
\* updatedFollowing = [...following] and the probes of the first batch are
\* issued.  Rejected: setError(err.message), finally.
CheckMutualQuota ==
  /\ checkCall.pc = "quota"
  /\ \/ \E q \in quotaAnswers :
          /\ rateLimit' = q
          /\ IF CheckMutualDenied(q, Len(checkCall.following))
               THEN CheckMutualDeny(q)
               ELSE /\ checkCall' = CheckMutualFirstBatch
                    /\ UNCHANGED <<error, isCheckingMutualFollows, lastJob>>
          /\ UNCHANGED faults
     \/ /\ MayFail
        /\ faults' = faults + 1
        /\ error' = RequestError
        /\ isCheckingMutualFollows' = FALSE
        /\ checkCall' = IdleCheck
        /\ lastJob' = Returned("checkMutualFollows", "failed", <<>>)
        /\ UNCHANGED rateLimit
  /\ UNCHANGED <<singleVars,
                 remoteFollowing, remoteStarred, followsBack, quotaAnswers,
                 isLoading, isLoadingStarred, isBulkUnfollowing,
                 isBulkUnstarring, progressVars, collectionVars, activeTab,
                 effectVars, fetchDataCalls, fetchStarredCall,
                 bulkUnfollowCall, bulkUnstarCall>>

\* The record written for a settled probe:
\* updatedFollowing[actualIndex] = {...user, isFollowingMe,
\* isMutualFollow: isFollowingMe}.  The history field probe is "answered"
\* for 204 and 404, the two answers the endpoint defines, else "failed".
ProbedRecord(user, status) ==
  [login |-> user.login,
   isMutualFollow |-> CheckIfIAmFollowedBy(status),
   probe |-> IF status \in {204, 404} THEN "answered" ELSE "failed"]

\* an index into the batch taken for an index into the list
BatchIndexOnly(i, batchIndex) == batchIndex

\* const actualIndex = i + batchIndex, for the member batchIndex (from 0) of
\* the batch slice(i, i + batchSize); positions count from 1 here.
ActualIndex(i, batchIndex) == i + batchIndex

\* checkIfIAmFollowedBy(user.login) settles for the batch member at position
\* idx.  It never rejects, so the catch of the batch callback is never
\* entered.
CheckMutualProbe(idx) ==
  /\ checkCall.pc = "probing"
  /\ idx \in checkCall.pending
  /\ \E status \in {ProbeStatus(checkCall.following[idx].login)}
                     \cup (IF MayFail THEN FaultStatuses ELSE {}) :
       /\ faults' = IF status \in FaultStatuses THEN faults + 1 ELSE faults
       /\ checkCall' =
            [checkCall EXCEPT
               !.pending = @ \ {idx},
               !.refused = IF status \in RefusedStatuses
                             THEN @ \cup {idx} ELSE @,
               !.updatedFollowing[ActualIndex(checkCall.i,
                                              idx - checkCall.i)] =
                  ProbedRecord(checkCall.following[idx], status)]
  /\ UNCHANGED <<singleVars,
                 remoteFollowing, remoteStarred, followsBack, quotaAnswers,
                 flagVars, progressVars, collectionVars, error, rateLimit,
                 activeTab, effectVars, fetchDataCalls, fetchStarredCall,
                 bulkUnfollowCall, bulkUnstarCall, lastJob>>

\* Promise.all of a batch is fulfilled.  With a batch left
\* (i + batchSize < following.length) the 100 ms delay starts; otherwise
\* setFollowing(updatedFollowing) and finally.
CheckMutualBatchDone ==
  /\ checkCall.pc = "probing"
  /\ checkCall.pending = {}
  /\ IF checkCall.i + mutualBatchSize < Len(checkCall.following)
       THEN /\ checkCall' = [checkCall EXCEPT !.pc = "delay"]
            /\ UNCHANGED <<following, isCheckingMutualFollows, lastJob,
                           autoCheckEffect>>
       ELSE /\ following' = checkCall.updatedFollowing
            /\ autoCheckEffect' = TRUE
            /\ isCheckingMutualFollows' = FALSE
            /\ checkCall' = IdleCheck
            /\ lastJob' = Returned("checkMutualFollows", "ok", <<>>)
  /\ UNCHANGED <<singleVars,
                 remoteVars, isLoading, isLoadingStarred, isBulkUnfollowing,
                 isBulkUnstarring, progressVars, currentUser, starredRepos,
                 error, rateLimit, activeTab, fetchDataEffect, tabEffect,
                 fetchDataCalls, fetchStarredCall, bulkUnfollowCall,
                 bulkUnstarCall>>

\* The delay between two batches is over: i += batchSize, and the probes of
\* the next batch are issued.
CheckMutualDelayDone ==
  /\ checkCall.pc = "delay"
  /\ LET i == checkCall.i + mutualBatchSize
         n == Len(checkCall.following)
     IN  checkCall' =
           [checkCall EXCEPT
              !.pc = "probing",
              !.i = i,
              !.pending = Batch(i, mutualBatchSize, n),
              !.probes = @ \o [k \in 1..(Min(i + mutualBatchSize, n) - i)
                                 |-> checkCall.following[i + k].login]]
  /\ UNCHANGED <<singleVars,
                 remoteVars, flagVars, progressVars, collectionVars, error,
                 rateLimit, activeTab, effectVars, fetchDataCalls,
                 fetchStarredCall, bulkUnfollowCall, bulkUnstarCall, lastJob>>

(***************************************************************************)
(* Dashboard: handleBulkUnfollow                                           *)
(***************************************************************************)
\* a target selection that keeps every record
EveryUser(list) == list

\* following.filter(user => !user.isMutualFollow)
NonMutualUsers(list) == SelectSeq(list, LAMBDA user : ~user.isMutualFollow)

Logins(list) == [k \in DOMAIN list |-> list[k].login]

\* nonMutualFollowsCount of the render
nonMutualFollowsCount == Len(NonMutualUsers(following))

\* a Bulk Unfollow button that does not test isBulkUnfollowing
BulkUnfollowShownWhileBusy ==
  /\ DashboardShown
  /\ activeTab = "following"
  /\ nonMutualFollowsCount > 0
  /\ ~isCheckingMutualFollows

\* The Bulk Unfollow button is rendered.
BulkUnfollowShown ==
  /\ DashboardShown
  /\ activeTab = "following"
  /\ nonMutualFollowsCount > 0
  /\ ~isBulkUnfollowing
  /\ ~isCheckingMutualFollows

\* nonMutualUsers, unfollowedUsers, unfollowedCount and i are the handler's
\* locals; pending holds the positions in nonMutualUsers whose unfollowUser
\* call has not settled.  History fields: calls lists the logins
\* unfollowUser was called with, in call order; mutualAtCall and
\* unresolvedAtCall are the logins of the following records that, when the
\* handler was called, were flagged mutual, resp. had no answered probe;
\* delays counts the delays between batches the handler has started.
IdleUnfollow == [pc |-> "idle", nonMutualUsers |-> <<>>, i |-> 0,
                 pending |-> {}, unfollowedUsers |-> {}, unfollowedCount |-> 0,
                 calls |-> <<>>, mutualAtCall |-> {}, unresolvedAtCall |-> {},
                 delays |-> 0]

\* handleBulkUnfollow up to its first await: the filter, the alert for an
\* empty target list, window.confirm, then setIsBulkUnfollowing(true);
\* setBulkUnfollowProgress({0, n}); setError(null); getRateLimit() is
\* issued.
HandleBulkUnfollow(confirmed) ==
  /\ BulkUnfollowShown
  /\ bulkUnfollowCall.pc = "idle"
  /\ LET nonMutualUsers == NonMutualUsers(following)
     IN  IF Len(nonMutualUsers) = 0 \/ ~confirmed
           THEN UNCHANGED <<bulkUnfollowCall, isBulkUnfollowing,
                            bulkUnfollowProgress, error, lastJob>>
           ELSE /\ lastJob' = NoJob
                /\ bulkUnfollowCall' =
                     [IdleUnfollow EXCEPT
                        !.pc = "quota",
                        !.nonMutualUsers = Logins(nonMutualUsers),
                        !.mutualAtCall =
                           {following[k].login : k \in
                              {j \in DOMAIN following :
                                 following[j].isMutualFollow}},
                        !.unresolvedAtCall =
                           {following[k].login : k \in
                              {j \in DOMAIN following :
                                 following[j].probe # "answered"}}]
                /\ isBulkUnfollowing' = TRUE
                /\ bulkUnfollowProgress' =
                     [current |-> 0, total |-> Len(nonMutualUsers)]
                /\ error' = NoError
  /\ UNCHANGED <<singleVars,
                 remoteVars, isLoading, isLoadingStarred,
                 isCheckingMutualFollows, isBulkUnstarring, bulkUnstarProgress,
                 collectionVars, rateLimit, activeTab, effectVars,
                 fetchDataCalls, fetchStarredCall, checkCall, bulkUnstarCall>>

\* an admission test that also denies at the threshold itself
DeniedAtThreshold(remaining, n) == remaining <= n + unfollowMargin

\* The admission test of handleBulkUnfollow:
\* rateLimitInfo.rate.remaining < nonMutualUsers.length + 10.
BulkUnfollowDenied(remaining, n) == remaining < n + unfollowMargin

\* a catch without the finally: the busy flag and the progress stay
BulkUnfollowThrowBusy(err, result) ==
  /\ error' = err
  /\ bulkUnfollowCall' = IdleUnfollow
  /\ lastJob' = Returned("handleBulkUnfollow", result, <<>>)
  /\ UNCHANGED <<isBulkUnfollowing, bulkUnfollowProgress>>

\* The catch and finally of handleBulkUnfollow: setError(err.message);
\* setIsBulkUnfollowing(false); setBulkUnfollowProgress({0, 0}).
BulkUnfollowThrow(err, result) ==
  /\ error' = err
  /\ isBulkUnfollowing' = FALSE
  /\ bulkUnfollowProgress' = [current |-> 0, total |-> 0]
  /\ bulkUnfollowCall' = IdleUnfollow
  /\ lastJob' = Returned("handleBulkUnfollow", result, <<>>)

\* getRateLimit() settles.  Fulfilled: setRateLimit(rateLimitInfo); when
\* denied, throw (caught below: setError, finally); otherwise the
\* unfollowUser calls of the first batch are issued.  Rejected: the same
\* catch and finally.
BulkUnfollowQuota ==
  /\ bulkUnfollowCall.pc = "quota"
  /\ \/ \E q \in quotaAnswers :
          LET c == bulkUnfollowCall
              n == Len(c.nonMutualUsers)
          IN  /\ rateLimit' = q
              /\ IF BulkUnfollowDenied(q, n)
                   THEN BulkUnfollowThrow(Insufficient(q), "denied")
                   ELSE /\ bulkUnfollowCall' =
                             [c EXCEPT
                                !.pc = "batch",
                                !.i = 0,
                                !.pending = Batch(0, batchSize, n),
                                !.calls = SubSeq(c.nonMutualUsers, 1,
                                                 Min(batchSize, n))]
                        /\ UNCHANGED <<error, isBulkUnfollowing,
                                       bulkUnfollowProgress, lastJob>>
              /\ UNCHANGED faults
     \/ /\ MayFail
        /\ faults' = faults + 1
        /\ BulkUnfollowThrow(RequestError, "failed")
        /\ UNCHANGED rateLimit
  /\ UNCHANGED <<singleVars,
                 remoteFollowing, remoteStarred, followsBack, quotaAnswers,
                 isLoading, isLoadingStarred, isCheckingMutualFollows,
                 isBulkUnstarring, bulkUnstarProgress, collectionVars,
                 activeTab, effectVars, fetchDataCalls, fetchStarredCall,
                 checkCall, bulkUnstarCall>>

\* a callback whose rejection ends the job: nothing is left pending and no
\* batch is left
UnfollowSettledAbort(c, idx, ok) ==
  IF ok
    THEN [c EXCEPT !.pending = @ \ {idx},
                   !.unfollowedUsers = @ \cup {c.nonMutualUsers[idx]},
                   !.unfollowedCount = @ + 1]
    ELSE [c EXCEPT !.pending = {}, !.i = Len(c.nonMutualUsers)]

\* The callback of one batch member after unfollowUser(user.login) settled.
\* Fulfilled: unfollowedUsers.add(user.login); unfollowedCount++;
\* setBulkUnfollowProgress({unfollowedCount, n}).  Rejected: console.error.
UnfollowSettled(c, idx, ok) ==
  IF ok
    THEN [c EXCEPT !.pending = @ \ {idx},
                   !.unfollowedUsers = @ \cup {c.nonMutualUsers[idx]},
                   !.unfollowedCount = @ + 1]
    ELSE [c EXCEPT !.pending = @ \ {idx}]

\* unfollowUser(user.login) settles for the batch member at position idx:
\* DELETE /user/following/{login} is served (the account no longer follows
\* login) or fails.
BulkUnfollowSettle(idx) ==
  /\ bulkUnfollowCall.pc = "batch"
  /\ idx \in bulkUnfollowCall.pending
  /\ \E ok \in {TRUE} \cup (IF MayFail THEN {FALSE} ELSE {}) :
       LET c == UnfollowSettled(bulkUnfollowCall, idx, ok)
       IN  /\ bulkUnfollowCall' = c
           /\ faults' = IF ok THEN faults ELSE faults + 1
           /\ remoteFollowing' =
                IF ok THEN FilterOut(remoteFollowing,
                                     {bulkUnfollowCall.nonMutualUsers[idx]})
                      ELSE remoteFollowing
           /\ bulkUnfollowProgress' =
                IF c.unfollowedCount # bulkUnfollowCall.unfollowedCount
                  THEN [current |-> c.unfollowedCount,
                        total |-> Len(c.nonMutualUsers)]
                  ELSE bulkUnfollowProgress
  /\ UNCHANGED <<singleVars,
                 remoteStarred, followsBack, quotaAnswers, flagVars,
                 bulkUnstarProgress, collectionVars, error, rateLimit,
                 activeTab, effectVars, fetchDataCalls, fetchStarredCall,
                 checkCall, bulkUnstarCall, lastJob>>

\* a fold that removes nothing
RemoveNothing(prev, unfollowedUsers) == prev

\* a fold that removes every target, whatever became of its request
RemoveEveryTarget(prev, unfollowedUsers) ==
  SelectSeq(prev, LAMBDA user : user.isMutualFollow)

\* setFollowing(prev => prev.filter(user => !unfollowedUsers.has(user.login)))
RemoveUnfollowed(prev, unfollowedUsers) ==
  SelectSeq(prev, LAMBDA user : user.login \notin unfollowedUsers)

\* Every member of the last batch has settled: the handler is about to fold
\* the job into the following list.
BulkUnfollowSettledAll ==
  /\ bulkUnfollowCall.pc = "batch"
  /\ bulkUnfollowCall.pending = {}
  /\ bulkUnfollowCall.i + batchSize >= Len(bulkUnfollowCall.nonMutualUsers)

\* a test that lets a delay follow the last batch of a full list
BatchLeftOrFull(i, size, n) == i + size <= n

\* if (i + batchSize < nonMutualUsers.length): a batch is left after the
\* batch at i.
BatchLeft(i, size, n) == i + size < n

\* a Promise.race in place of Promise.all: the first outcome of the batch
\* lets the loop go on
PromiseRaceFulfilled(i, size, n, pending) == pending # Batch(i, size, n)

\* await Promise.all(batch.map(...)) over the batch at i is fulfilled: every
\* member's callback has returned.
PromiseAllFulfilled(i, size, n, pending) == pending = {}

\* Promise.all of a batch is fulfilled.  With a batch left
\* (i + batchSize < nonMutualUsers.length) the 200 ms delay starts;
\* otherwise setFollowing(prev => ...), the alert, and finally.
BulkUnfollowBatchDone ==
  /\ bulkUnfollowCall.pc = "batch"
  /\ PromiseAllFulfilled(bulkUnfollowCall.i, batchSize,
                         Len(bulkUnfollowCall.nonMutualUsers),
                         bulkUnfollowCall.pending)
  /\ IF BatchLeft(bulkUnfollowCall.i, batchSize,
                  Len(bulkUnfollowCall.nonMutualUsers))
       THEN /\ bulkUnfollowCall' = [bulkUnfollowCall EXCEPT
                                      !.pc = "delay", !.delays = @ + 1]
            /\ UNCHANGED <<following, isBulkUnfollowing,
                           bulkUnfollowProgress, lastJob, autoCheckEffect>>
       ELSE /\ autoCheckEffect' = TRUE
            /\ following' =
                 RemoveUnfollowed(following, bulkUnfollowCall.unfollowedUsers)
            /\ isBulkUnfollowing' = FALSE
            /\ bulkUnfollowProgress' = [current |-> 0, total |-> 0]
            /\ bulkUnfollowCall' = IdleUnfollow
            /\ lastJob' = Returned("handleBulkUnfollow", "ok", <<>>)
  /\ UNCHANGED <<singleVars,
                 remoteVars, isLoading, isLoadingStarred,
                 isCheckingMutualFollows, isBulkUnstarring, bulkUnstarProgress,
                 currentUser, starredRepos, error, rateLimit, activeTab,
                 fetchDataEffect, tabEffect, fetchDataCalls, fetchStarredCall,
                 checkCall, bulkUnstarCall>>

\* The delay between two batches is over: i += batchSize, and the
\* unfollowUser calls of the next batch are issued.
BulkUnfollowDelayDone ==
  /\ bulkUnfollowCall.pc = "delay"
  /\ LET c == bulkUnfollowCall
         i == c.i + batchSize
         n == Len(c.nonMutualUsers)
     IN  bulkUnfollowCall' =
           [c EXCEPT !.pc = "batch",
                     !.i = i,
                     !.pending = Batch(i, batchSize, n),
                     !.calls = @ \o SubSeq(c.nonMutualUsers, i + 1,
                                           Min(i + batchSize, n))]
  /\ UNCHANGED <<singleVars,
                 remoteVars, flagVars, progressVars, collectionVars, error,
                 rateLimit, activeTab, effectVars, fetchDataCalls,
                 fetchStarredCall, checkCall, bulkUnstarCall, lastJob>>

(***************************************************************************)
(* Dashboard: handleBulkUnstar                                             *)
(***************************************************************************)
\* The Bulk Unstar button is rendered.
BulkUnstarShown ==
  /\ DashboardShown
  /\ activeTab = "starred"
  /\ Len(starredRepos) > 0
  /\ ~isBulkUnstarring

\* starredRepos is the list of the render the handler closed over;
\* unstarredRepos, unstarredCount and i are its locals; pending holds the
\* positions whose unstarRepository call has not settled.  History field:
\* calls lists the repositories unstarRepository was called with; history
\* field delays counts the delays between batches the handler has started.
IdleUnstar == [pc |-> "idle", starredRepos |-> <<>>, i |-> 0, pending |-> {},
               unstarredRepos |-> {}, unstarredCount |-> 0, calls |-> <<>>,
               delays |-> 0]

\* handleBulkUnstar up to its first await: the alert for an empty list,
\* window.confirm, then setIsBulkUnstarring(true);
\* setBulkUnstarProgress({0, n}); setError(null); getRateLimit() is issued.
HandleBulkUnstar(confirmed) ==
  /\ BulkUnstarShown
  /\ bulkUnstarCall.pc = "idle"
  /\ IF Len(starredRepos) = 0 \/ ~confirmed
       THEN UNCHANGED <<bulkUnstarCall, isBulkUnstarring, bulkUnstarProgress,
                        error, lastJob>>
       ELSE /\ lastJob' = NoJob
            /\ bulkUnstarCall' = [IdleUnstar EXCEPT
                                    !.pc = "quota",
                                    !.starredRepos = starredRepos]
            /\ isBulkUnstarring' = TRUE
            /\ bulkUnstarProgress' =
                 [current |-> 0, total |-> Len(starredRepos)]
            /\ error' = NoError
  /\ UNCHANGED <<singleVars,
                 remoteVars, isLoading, isLoadingStarred,
                 isCheckingMutualFollows, isBulkUnfollowing,
                 bulkUnfollowProgress, collectionVars, rateLimit, activeTab,
                 effectVars, fetchDataCalls, fetchStarredCall, checkCall,
                 bulkUnfollowCall>>

\* The admission test of handleBulkUnstar:
\* rateLimitInfo.rate.remaining < starredRepos.length + 10.
BulkUnstarDenied(remaining, n) == remaining < n + unstarMargin

\* The catch and finally of handleBulkUnstar: setError(err.message);
\* setIsBulkUnstarring(false); setBulkUnstarProgress({0, 0}).
BulkUnstarThrow(err, result) ==
  /\ error' = err
  /\ isBulkUnstarring' = FALSE
  /\ bulkUnstarProgress' = [current |-> 0, total |-> 0]
  /\ bulkUnstarCall' = IdleUnstar
  /\ lastJob' = Returned("handleBulkUnstar", result, <<>>)

\* getRateLimit() settles.  Fulfilled: setRateLimit(rateLimitInfo); when
\* denied, throw (setError, finally); otherwise the unstarRepository calls
\* of the first batch are issued.  Rejected: the same catch and finally.
BulkUnstarQuota ==
  /\ bulkUnstarCall.pc = "quota"
  /\ \/ \E q \in quotaAnswers :
          LET c == bulkUnstarCall
              n == Len(c.starredRepos)
          IN  /\ rateLimit' = q
              /\ IF BulkUnstarDenied(q, n)
                   THEN BulkUnstarThrow(Insufficient(q), "denied")
                   ELSE /\ bulkUnstarCall' =
                             [c EXCEPT
                                !.pc = "batch",
                                !.i = 0,
                                !.pending = Batch(0, unstarBatchSize, n),
                                !.calls = SubSeq(c.starredRepos, 1,
                                                 Min(unstarBatchSize, n))]
                        /\ UNCHANGED <<error, isBulkUnstarring,
                                       bulkUnstarProgress, lastJob>>
              /\ UNCHANGED faults
     \/ /\ MayFail
        /\ faults' = faults + 1
        /\ BulkUnstarThrow(RequestError, "failed")
        /\ UNCHANGED rateLimit
  /\ UNCHANGED <<singleVars,
                 remoteFollowing, remoteStarred, followsBack, quotaAnswers,
                 isLoading, isLoadingStarred, isCheckingMutualFollows,
                 isBulkUnfollowing, bulkUnfollowProgress, collectionVars,
                 activeTab, effectVars, fetchDataCalls, fetchStarredCall,
                 checkCall, bulkUnfollowCall>>

\* The callback of one batch member after unstarRepository(owner, name)
\* settled.  Fulfilled: unstarredRepos.add(repo.id); unstarredCount++;
\* setBulkUnstarProgress({unstarredCount, n}).  Rejected: console.error.
UnstarSettled(c, idx, ok) ==
  IF ok
    THEN [c EXCEPT !.pending = @ \ {idx},
                   !.unstarredRepos = @ \cup {c.starredRepos[idx]},
                   !.unstarredCount = @ + 1]
    ELSE [c EXCEPT !.pending = @ \ {idx}]

\* unstarRepository settles for the batch member at position idx:
\* DELETE /user/starred/{owner}/{repo} is served or fails.
BulkUnstarSettle(idx) ==
  /\ bulkUnstarCall.pc = "batch"
  /\ idx \in bulkUnstarCall.pending
  /\ \E ok \in {TRUE} \cup (IF MayFail THEN {FALSE} ELSE {}) :
       LET c == UnstarSettled(bulkUnstarCall, idx, ok)
       IN  /\ bulkUnstarCall' = c
           /\ faults' = IF ok THEN faults ELSE faults + 1
           /\ remoteStarred' =
                IF ok THEN FilterOut(remoteStarred,
                                     {bulkUnstarCall.starredRepos[idx]})
                      ELSE remoteStarred
           /\ bulkUnstarProgress' =
                IF c.unstarredCount # bulkUnstarCall.unstarredCount
                  THEN [current |-> c.unstarredCount,
                        total |-> Len(c.starredRepos)]
                  ELSE bulkUnstarProgress
  /\ UNCHANGED <<singleVars,
                 remoteFollowing, followsBack, quotaAnswers, flagVars,
                 bulkUnfollowProgress, collectionVars, error, rateLimit,
                 activeTab, effectVars, fetchDataCalls, fetchStarredCall,
                 checkCall, bulkUnfollowCall, lastJob>>

\* setStarredRepos(prev => prev.filter(repo => !unstarredRepos.has(repo.id)))
RemoveUnstarred(prev, unstarredRepos) ==
  SelectSeq(prev, LAMBDA repo : repo \notin unstarredRepos)

\* Every member of the last batch has settled: the handler is about to fold
\* the job into the starred list.
BulkUnstarSettledAll ==
  /\ bulkUnstarCall.pc = "batch"
  /\ bulkUnstarCall.pending = {}
  /\ bulkUnstarCall.i + unstarBatchSize >= Len(bulkUnstarCall.starredRepos)

\* Promise.all of a batch is fulfilled.  With a batch left the 200 ms delay
\* starts; otherwise setStarredRepos(prev => ...), the alert, and finally.
\* A changed starredRepos.length makes the tab effect run again.
BulkUnstarBatchDone ==
  /\ bulkUnstarCall.pc = "batch"
  /\ PromiseAllFulfilled(bulkUnstarCall.i, unstarBatchSize,
                         Len(bulkUnstarCall.starredRepos),
                         bulkUnstarCall.pending)
  /\ IF BatchLeft(bulkUnstarCall.i, unstarBatchSize,
                  Len(bulkUnstarCall.starredRepos))
       THEN /\ bulkUnstarCall' = [bulkUnstarCall EXCEPT
                                    !.pc = "delay", !.delays = @ + 1]
            /\ UNCHANGED <<starredRepos, tabEffect, isBulkUnstarring,
                           bulkUnstarProgress, lastJob>>
       ELSE /\ starredRepos' =
                 RemoveUnstarred(starredRepos, bulkUnstarCall.unstarredRepos)
            /\ tabEffect' = (tabEffect \/ Len(starredRepos') # Len(starredRepos))
            /\ isBulkUnstarring' = FALSE
            /\ bulkUnstarProgress' = [current |-> 0, total |-> 0]
            /\ bulkUnstarCall' = IdleUnstar
            /\ lastJob' = Returned("handleBulkUnstar", "ok", <<>>)
  /\ UNCHANGED <<singleVars,
                 remoteVars, isLoading, isLoadingStarred,
                 isCheckingMutualFollows, isBulkUnfollowing,
                 bulkUnfollowProgress, currentUser, following, error,
                 rateLimit, activeTab, fetchDataEffect, autoCheckEffect,
                 fetchDataCalls,
                 fetchStarredCall, checkCall, bulkUnfollowCall>>

\* The delay between two batches is over: i += batchSize, and the
\* unstarRepository calls of the next batch are issued.
BulkUnstarDelayDone ==
  /\ bulkUnstarCall.pc = "delay"
  /\ LET c == bulkUnstarCall
         i == c.i + unstarBatchSize
         n == Len(c.starredRepos)
     IN  bulkUnstarCall' =
           [c EXCEPT !.pc = "batch",
                     !.i = i,
                     !.pending = Batch(i, unstarBatchSize, n),
                     !.calls = @ \o SubSeq(c.starredRepos, i + 1,
                                           Min(i + unstarBatchSize, n))]
  /\ UNCHANGED <<singleVars,
                 remoteVars, flagVars, progressVars, collectionVars, error,
                 rateLimit, activeTab, effectVars, fetchDataCalls,
                 fetchStarredCall, checkCall, bulkUnfollowCall, lastJob>>

(***************************************************************************)
(* Dashboard: handleUnfollow and handleUnstar, the buttons of the cards    *)
(***************************************************************************)
\* The list of cards is rendered: neither the skeletons of a load nor the
\* spinner of checkMutualFollows / handleBulkUnstar stands in its place.
CardsShown ==
  /\ DashboardShown
  /\ ~(isLoading /\ activeTab = "following")
  /\ ~(isLoadingStarred /\ activeTab = "starred")
  /\ ~isCheckingMutualFollows
  /\ ~isBulkUnstarring

\* setError('Insufficient API calls remaining. Please wait ...'): the
\* message of the cards' handlers names no quota.
InsufficientForOne == [kind |-> "insufficient", remaining |-> -1]

\* one call at a time: the user lets a card's handler return before using
\* the next card.  History fields: calls lists what unfollowUser /
\* unstarRepository was called with; rateLimitAtCall is the rateLimit state
\* the Dashboard held when the handler was called.
IdleSingle == [pc |-> "idle", target |-> 0, calls |-> <<>>,
               rateLimitAtCall |-> -1]

\* The card of the followed user login is rendered, and no unfollow of that
\* user is under way.
UnfollowCardShown(login) ==
  /\ CardsShown
  /\ activeTab = "following"
  /\ \E k \in DOMAIN following : following[k].login = login
  /\ login \notin unfollowingUsers

\* the record of login in the following list
RecordOf(login) ==
  following[CHOOSE k \in DOMAIN following : following[k].login = login]

\* The unfollow button of the card of login is rendered (not for a record
\* flagged mutual) and enabled.
UnfollowButtonShown(login) ==
  UnfollowCardShown(login) /\ ~RecordOf(login).isMutualFollow

\* a handler without the guard for mutual records
NoMutualGuard(user) == FALSE

\* if (user.isMutualFollow) { alert(...); return; }
MutualGuard(user) == user.isMutualFollow

\* A request to unfollow the user of a card: handleUnfollow(user).  For a
\* record flagged mutual the card offers no button, and the handler itself
\* alerts and returns.  Otherwise UserCard.handleUnfollow asks
\* window.confirm, and handleUnfollow runs up to its first await:
\* setUnfollowingUsers(add); setError(null); getRateLimit() is issued.
HandleUnfollow(login, confirmed) ==
  /\ UnfollowCardShown(login)
  /\ unfollowCall.pc = "idle"
  /\ IF MutualGuard(RecordOf(login))
       THEN /\ lastJob' = Returned("handleUnfollow", "rejected", <<>>)
            /\ UNCHANGED <<unfollowingUsers, unfollowCall, error>>
       ELSE IF confirmed
         THEN /\ unfollowingUsers' = unfollowingUsers \cup {login}
              /\ unfollowCall' = [IdleSingle EXCEPT
                                    !.pc = "quota",
                                    !.target = login,
                                    !.rateLimitAtCall = rateLimit]
              /\ error' = NoError
              /\ lastJob' = NoJob
         ELSE UNCHANGED <<unfollowingUsers, unfollowCall, error, lastJob>>
  /\ UNCHANGED <<remoteVars, flagVars, progressVars, collectionVars, rateLimit,
                 activeTab, effectVars, callVars, unstarringRepos, unstarCall>>

\* an admission test on the rateLimit state of the Dashboard, which an
\* earlier handler stored
SingleDeniedOnState(remaining) == rateLimit < singleMargin

\* The admission test of handleUnfollow and handleUnstar:
\* rateLimitInfo.rate.remaining < 10.
SingleDenied(remaining) == remaining < singleMargin

\* The catch and finally of handleUnfollow: setError(err.message);
\* setUnfollowingUsers(delete).
UnfollowThrow(err, result) ==
  /\ error' = err
  /\ unfollowingUsers' = unfollowingUsers \ {unfollowCall.target}
  /\ unfollowCall' = IdleSingle
  /\ lastJob' = Returned("handleUnfollow", result, <<>>)

\* getRateLimit() settles in handleUnfollow.  Fulfilled:
\* setRateLimit(rateLimitInfo); when denied, throw; otherwise unfollowUser is
\* called.  Rejected: catch and finally.
UnfollowQuota ==
  /\ unfollowCall.pc = "quota"
  /\ \/ \E q \in quotaAnswers :
          /\ rateLimit' = q
          /\ IF SingleDenied(q)
               THEN UnfollowThrow(InsufficientForOne, "denied")
               ELSE /\ unfollowCall' =
                         [unfollowCall EXCEPT
                            !.pc = "unfollow",
                            !.calls = <<unfollowCall.target>>]
                    /\ UNCHANGED <<error, unfollowingUsers, lastJob>>
          /\ UNCHANGED faults
     \/ /\ MayFail
        /\ faults' = faults + 1
        /\ UnfollowThrow(RequestError, "failed")
        /\ UNCHANGED rateLimit
  /\ UNCHANGED <<remoteFollowing, remoteStarred, followsBack, quotaAnswers,
                 flagVars, progressVars, collectionVars, activeTab, effectVars,
                 callVars, unstarringRepos, unstarCall>>

\* setFollowing(prev => prev.filter(u => u.login !== user.login))
RemoveUser(prev, login) == SelectSeq(prev, LAMBDA u : u.login # login)

\* unfollowUser(user.login) settles in handleUnfollow.  Fulfilled: the
\* account no longer follows the user; setFollowing(prev => ...); finally.
\* Rejected: catch and finally.
UnfollowSettle ==
  /\ unfollowCall.pc = "unfollow"
  /\ \/ /\ remoteFollowing' = FilterOut(remoteFollowing, {unfollowCall.target})
        /\ following' = RemoveUser(following, unfollowCall.target)
        /\ autoCheckEffect' = TRUE
        /\ unfollowingUsers' = unfollowingUsers \ {unfollowCall.target}
        /\ unfollowCall' = IdleSingle
        /\ lastJob' = Returned("handleUnfollow", "ok", <<>>)
        /\ UNCHANGED <<faults, error>>
     \/ /\ MayFail
        /\ faults' = faults + 1
        /\ UnfollowThrow(RequestError, "failed")
        /\ UNCHANGED <<remoteFollowing, following, autoCheckEffect>>
  /\ UNCHANGED <<remoteStarred, followsBack, quotaAnswers, flagVars,
                 progressVars, currentUser, starredRepos, rateLimit, activeTab,
                 fetchDataEffect, tabEffect, callVars, unstarringRepos,
                 unstarCall>>

\* The unstar button of the card of repository id is rendered and enabled.
UnstarButtonShown(id) ==
  /\ CardsShown
  /\ activeTab = "starred"
  /\ id \in Range(starredRepos)
  /\ id \notin unstarringRepos

\* handleUnstar up to its first await: setUnstarringRepos(add);
\* setError(null); getRateLimit() is issued.  The card asks no confirmation.
HandleUnstar(id) ==
  /\ UnstarButtonShown(id)
  /\ unstarCall.pc = "idle"
  /\ unstarringRepos' = unstarringRepos \cup {id}
  /\ unstarCall' = [IdleSingle EXCEPT !.pc = "quota",
                                      !.target = id,
                                      !.rateLimitAtCall = rateLimit]
  /\ error' = NoError
  /\ lastJob' = NoJob
  /\ UNCHANGED <<remoteVars, flagVars, progressVars, collectionVars, rateLimit,
                 activeTab, effectVars, callVars, unfollowingUsers,
                 unfollowCall>>

\* The catch and finally of handleUnstar: setError(err.message);
\* setUnstarringRepos(delete).
UnstarThrow(err, result) ==
  /\ error' = err
  /\ unstarringRepos' = unstarringRepos \ {unstarCall.target}
  /\ unstarCall' = IdleSingle
  /\ lastJob' = Returned("handleUnstar", result, <<>>)

\* getRateLimit() settles in handleUnstar.
UnstarQuota ==
  /\ unstarCall.pc = "quota"
  /\ \/ \E q \in quotaAnswers :
          /\ rateLimit' = q
          /\ IF SingleDenied(q)
               THEN UnstarThrow(InsufficientForOne, "denied")
               ELSE /\ unstarCall' =
                         [unstarCall EXCEPT !.pc = "unstar",
                                            !.calls = <<unstarCall.target>>]
                    /\ UNCHANGED <<error, unstarringRepos, lastJob>>
          /\ UNCHANGED faults
     \/ /\ MayFail
        /\ faults' = faults + 1
        /\ UnstarThrow(RequestError, "failed")
        /\ UNCHANGED rateLimit
  /\ UNCHANGED <<remoteFollowing, remoteStarred, followsBack, quotaAnswers,
                 flagVars, progressVars, collectionVars, activeTab, effectVars,
                 callVars, unfollowingUsers, unfollowCall>>

\* setStarredRepos(prev => prev.filter(repo => repo.id !== repository.id))
RemoveRepo(prev, id) == SelectSeq(prev, LAMBDA repo : repo # id)

\* unstarRepository(owner, name) settles in handleUnstar.
UnstarSettle ==
  /\ unstarCall.pc = "unstar"
  /\ \/ /\ remoteStarred' = FilterOut(remoteStarred, {unstarCall.target})
        /\ starredRepos' = RemoveRepo(starredRepos, unstarCall.target)
        /\ tabEffect' = TRUE
        /\ unstarringRepos' = unstarringRepos \ {unstarCall.target}
        /\ unstarCall' = IdleSingle
        /\ lastJob' = Returned("handleUnstar", "ok", <<>>)
        /\ UNCHANGED <<faults, error>>
     \/ /\ MayFail
        /\ faults' = faults + 1
        /\ UnstarThrow(RequestError, "failed")
        /\ UNCHANGED <<remoteStarred, starredRepos, tabEffect>>
  /\ UNCHANGED <<remoteFollowing, followsBack, quotaAnswers, flagVars,
                 progressVars, currentUser, following, rateLimit, activeTab,
                 fetchDataEffect, autoCheckEffect, callVars, unfollowingUsers,
                 unfollowCall>>

(***************************************************************************)
(* Initial states                                                          *)
(***************************************************************************)
\* The Dashboard after its first render: the useState initial values, the
\* mount effects not yet run.
InitDashboard ==
  /\ currentUser = ""
  /\ following = <<>>
  /\ starredRepos = <<>>
  /\ isLoading = TRUE
  /\ isLoadingStarred = FALSE
  /\ isCheckingMutualFollows = FALSE
  /\ isBulkUnfollowing = FALSE
  /\ bulkUnfollowProgress = [current |-> 0, total |-> 0]
  /\ isBulkUnstarring = FALSE
  /\ bulkUnstarProgress = [current |-> 0, total |-> 0]
  /\ error = NoError
  /\ rateLimit = -1
  /\ activeTab = "following"
  /\ fetchDataEffect = TRUE
  /\ tabEffect = TRUE
  /\ autoCheckEffect = TRUE
  /\ fetchDataCalls = [k \in 1..MaxLoads |-> IdleLoad]
  /\ fetchStarredCall = IdleStarLoad
  /\ checkCall = IdleCheck
  /\ bulkUnfollowCall = IdleUnfollow
  /\ bulkUnstarCall = IdleUnstar
  /\ unfollowingUsers = {}
  /\ unstarringRepos = {}
  /\ unfollowCall = IdleSingle
  /\ unstarCall = IdleSingle
  /\ lastJob = NoJob

\* The account: it follows nf users and has starred ns repositories, one of
\* the two collections being empty; up to maxM of the followed users, the
\* second of the list onwards, follow back.
InitRemote(maxF, maxS, maxM) ==
  /\ \E nf \in 0..maxF, ns \in 0..maxS :
       /\ nf = 0 \/ ns = 0
       /\ remoteFollowing = Iota(nf)
       /\ remoteStarred = Iota(ns)
       /\ followsBack \in {(2..(m + 1)) \cap (1..nf) : m \in 0..maxM}
  /\ faults = 0

\* No handler is running and no effect is waiting: the user acts only then.
Quiescent ==
  /\ ~fetchDataEffect /\ ~tabEffect /\ ~autoCheckEffect
  /\ \A k \in 1..MaxLoads : fetchDataCalls[k].pc = "idle"
  /\ fetchStarredCall.pc = "idle"
  /\ checkCall.pc = "idle"
  /\ bulkUnfollowCall.pc = "idle"
  /\ bulkUnstarCall.pc = "idle"
  /\ unfollowCall.pc = "idle"
  /\ unstarCall.pc = "idle"

\* A click of the user: it comes while nothing is running.
User(Click) == Quiescent /\ Click

\* The cards the user asks to unfollow: those of the first MaxClicked
\* followed users and those flagged mutual.
ClickedCards ==
  (1..MaxClicked)
    \cup {following[k].login :
            k \in {j \in DOMAIN following : following[j].isMutualFollow}}

(***************************************************************************)
(* The collector specification: loading and reloading the collections of   *)
(* an account of up to MaxRemote entries.                                  *)
(***************************************************************************)
\* the rate limit's answer for an account of n entries: it admits anything
AmpleQuota(n) == {n + mutualMargin}

InitCollect ==
  /\ InitDashboard
  /\ InitRemote(MaxRemote, MaxRemote, 0)
  /\ quotaAnswers = AmpleQuota(Len(remoteFollowing) + Len(remoteStarred))

NextCollect ==
  \/ FetchDataEffect
  \/ TabEffect
  \/ AutoCheckEffect
  \/ \E k \in 1..MaxLoads : FetchDataUser(k)
  \/ \E k \in 1..MaxLoads : FetchDataPage(k)
  \/ FetchStarredPage
  \/ User(HandleRefreshFollowing)
  \/ User(HandleRefreshStarred)
  \/ \E tab \in {"following", "starred"} : User(SetActiveTab(tab))

SpecCollect == InitCollect /\ [][NextCollect]_vars

(***************************************************************************)
(* The Dashboard specification: an account of up to MaxFollowing followed  *)
(* users or up to MaxStarred starred repositories; the user clicks only   *)
(* while no handler is running.                                            *)
(***************************************************************************)
\* The rate limit answers around the admission threshold of a bulk job over
\* all n entries of the account and around the threshold of
\* checkMutualFollows over them; the highest answer admits every handler.
QuotaNear(n) ==
  ((n + unfollowMargin - QuotaSpan)..(n + unfollowMargin))
    \cup {n + mutualMargin - 1, n + mutualMargin}

Init ==
  /\ InitDashboard
  /\ InitRemote(MaxFollowing, MaxStarred, MaxMutual)
  /\ quotaAnswers = QuotaNear(Len(remoteFollowing) + Len(remoteStarred))

Next ==
  \/ FetchDataEffect
  \/ TabEffect
  \/ AutoCheckEffect
  \/ \E k \in 1..MaxLoads : FetchDataUser(k)
  \/ \E k \in 1..MaxLoads : FetchDataPage(k)
  \/ FetchStarredPage
  \/ User(HandleRefreshFollowing)
  \/ User(HandleRefreshStarred)
  \/ \E tab \in {"following", "starred"} : User(SetActiveTab(tab))
  \/ User(CheckMutualFollows)
  \/ CheckMutualQuota
  \/ \E idx \in 1..MaxFollowing : CheckMutualProbe(idx)
  \/ CheckMutualBatchDone
  \/ \E confirmed \in BOOLEAN : User(HandleBulkUnfollow(confirmed))
  \/ BulkUnfollowQuota
  \/ \E idx \in 1..MaxFollowing : BulkUnfollowSettle(idx)
  \/ BulkUnfollowBatchDone
  \/ BulkUnfollowDelayDone
  \/ \E confirmed \in BOOLEAN : User(HandleBulkUnstar(confirmed))
  \/ BulkUnstarQuota
  \/ \E idx \in 1..MaxStarred : BulkUnstarSettle(idx)
  \/ BulkUnstarBatchDone
  \/ BulkUnstarDelayDone
  \/ \E login \in ClickedCards, confirmed \in BOOLEAN :
       User(HandleUnfollow(login, confirmed))
  \/ UnfollowQuota
  \/ UnfollowSettle
  \/ \E id \in 1..MaxClicked : User(HandleUnstar(id))
  \/ UnstarQuota
  \/ UnstarSettle

Spec == Init /\ [][Next]_vars

(***************************************************************************)
(* The Dashboard specification with fairness: every effect waiting is run, *)
(* and every request of a handler eventually returns or fails, so every    *)
(* handler that can take a step eventually takes one.  Nothing is assumed  *)
(* of the user.  No followed user follows back, and the rate limit answers *)
(* one quota that denies the bulk jobs and one that admits every handler.  *)
(***************************************************************************)
QuotaEither(n) == {n + unfollowMargin - 1, n + mutualMargin}

InitFair ==
  /\ InitDashboard
  /\ InitRemote(MaxFollowing, MaxStarred, 0)
  /\ quotaAnswers = QuotaEither(Len(remoteFollowing) + Len(remoteStarred))

EffectSteps == FetchDataEffect \/ TabEffect \/ AutoCheckEffect

LoadSteps ==
  \/ \E k \in 1..MaxLoads : FetchDataUser(k)
  \/ \E k \in 1..MaxLoads : FetchDataPage(k)
  \/ FetchStarredPage

CheckSteps ==
  \/ CheckMutualQuota
  \/ \E idx \in 1..MaxFollowing : CheckMutualProbe(idx)
  \/ CheckMutualBatchDone

BulkUnfollowSteps ==
  \/ BulkUnfollowQuota
  \/ \E idx \in 1..MaxFollowing : BulkUnfollowSettle(idx)
  \/ BulkUnfollowBatchDone
  \/ BulkUnfollowDelayDone

BulkUnstarSteps ==
  \/ BulkUnstarQuota
  \/ \E idx \in 1..MaxStarred : BulkUnstarSettle(idx)
  \/ BulkUnstarBatchDone
  \/ BulkUnstarDelayDone

SingleSteps == UnfollowQuota \/ UnfollowSettle \/ UnstarQuota \/ UnstarSettle

Fairness ==
  /\ WF_vars(EffectSteps)
  /\ WF_vars(LoadSteps)
  /\ WF_vars(CheckSteps)
  /\ WF_vars(BulkUnfollowSteps)
  /\ WF_vars(BulkUnstarSteps)
  /\ WF_vars(SingleSteps)

FairSpec == InitFair /\ [][Next]_vars /\ Fairness

(***************************************************************************)
(* The interleaving specification: an account of up to MaxRace followed    *)
(* users; the user clicks every button as soon as it is rendered and       *)
(* enabled, whatever handler is still running.  The account has too few    *)
(* entries for a second batch, so no delay between batches occurs.         *)
(***************************************************************************)
InitRace ==
  /\ InitDashboard
  /\ InitRemote(MaxRace, 0, 0)
  /\ quotaAnswers = AmpleQuota(Len(remoteFollowing))

NextRace ==
  \/ FetchDataEffect
  \/ TabEffect
  \/ AutoCheckEffect
  \/ \E k \in 1..MaxLoads : FetchDataUser(k)
  \/ \E k \in 1..MaxLoads : FetchDataPage(k)
  \/ CheckMutualFollows
  \/ CheckMutualQuota
  \/ \E idx \in 1..MaxRace : CheckMutualProbe(idx)
  \/ CheckMutualBatchDone
  \/ HandleBulkUnfollow(TRUE)
  \/ BulkUnfollowQuota
  \/ \E idx \in 1..MaxRace : BulkUnfollowSettle(idx)
  \/ BulkUnfollowBatchDone
  \/ \E login \in 1..MaxClicked : HandleUnfollow(login, TRUE)
  \/ UnfollowQuota
  \/ UnfollowSettle

SpecRace == InitRace /\ [][NextRace]_vars

(***************************************************************************)
(* The eager specification: loads, refreshes and checks of an account of   *)
(* up to MaxRace followed users; the user clicks Refresh and Check Mutual  *)
(* as soon as they are rendered and enabled, whatever is still running.    *)
(***************************************************************************)
InitEager ==
  /\ InitDashboard
  /\ InitRemote(MaxRace, 0, MaxMutual)
  /\ quotaAnswers = AmpleQuota(Len(remoteFollowing))

NextEager ==
  \/ FetchDataEffect
  \/ TabEffect
  \/ AutoCheckEffect
  \/ \E k \in 1..MaxLoads : FetchDataUser(k)
  \/ \E k \in 1..MaxLoads : FetchDataPage(k)
  \/ HandleRefreshFollowing
  \/ CheckMutualFollows
  \/ CheckMutualQuota
  \/ \E idx \in 1..MaxRace : CheckMutualProbe(idx)
  \/ CheckMutualBatchDone

SpecEager == InitEager /\ [][NextEager]_vars

(***************************************************************************)
(* The resolution specification: an account of MaxResolve followed users,  *)
(* more than one batch of checkMutualFollows; the user runs one check      *)
(* after the load.                                                         *)
(***************************************************************************)
InitResolve ==
  /\ InitDashboard
  /\ remoteFollowing = Iota(MaxResolve)
  /\ remoteStarred = <<>>
  /\ followsBack \in {{}, 2..(MaxMutual + 1)}
  /\ faults = 0
  /\ quotaAnswers = AmpleQuota(MaxResolve)

NextResolve ==
  \/ FetchDataEffect
  \/ TabEffect
  \/ AutoCheckEffect
  \/ \E k \in 1..MaxLoads : FetchDataUser(k)
  \/ \E k \in 1..MaxLoads : FetchDataPage(k)
  \/ User(lastJob.op = "fetchData" /\ CheckMutualFollows)
  \/ CheckMutualQuota
  \/ \E idx \in 1..MaxResolve : CheckMutualProbe(idx)
  \/ CheckMutualBatchDone
  \/ CheckMutualDelayDone

SpecResolve == InitResolve /\ [][NextResolve]_vars

(***************************************************************************)
(* The overlap specification: an account of MaxOverlap followed users, the *)
(* last of whom follows back; a bulk unfollow has more than one batch, and *)
(* once the list is loaded the user clicks Check Mutual and Bulk Unfollow   *)
(* as soon as they are rendered, whatever job or check is still running.   *)
(* No request fails.                                                       *)
(***************************************************************************)
InitOverlap ==
  /\ InitDashboard
  /\ remoteFollowing = Iota(MaxOverlap)
  /\ remoteStarred = <<>>
  /\ followsBack = {MaxOverlap}
  /\ faults = MaxFaults
  /\ quotaAnswers = AmpleQuota(MaxOverlap)

\* No load is running and no effect is waiting.
Loaded ==
  /\ ~fetchDataEffect /\ ~tabEffect /\ ~autoCheckEffect
  /\ \A k \in 1..MaxLoads : fetchDataCalls[k].pc = "idle"

NextOverlap ==
  \/ FetchDataEffect
  \/ TabEffect
  \/ AutoCheckEffect
  \/ \E k \in 1..MaxLoads : FetchDataUser(k)
  \/ \E k \in 1..MaxLoads : FetchDataPage(k)
  \/ Loaded /\ CheckMutualFollows
  \/ CheckMutualQuota
  \/ \E idx \in 1..MaxOverlap : CheckMutualProbe(idx)
  \/ CheckMutualBatchDone
  \/ Loaded /\ HandleBulkUnfollow(TRUE)
  \/ BulkUnfollowQuota
  \/ \E idx \in 1..MaxOverlap : BulkUnfollowSettle(idx)
  \/ BulkUnfollowBatchDone
  \/ BulkUnfollowDelayDone

SpecOverlap == InitOverlap /\ [][NextOverlap]_vars

(***************************************************************************)
(* Properties of the bulk jobs.                                            *)
(***************************************************************************)
\* The logins of the following records that satisfy the flag test given as
\* the set of accepted flag values.
FlaggedLogins(flags) ==
  {following[k].login :
     k \in {j \in DOMAIN following : following[j].isMutualFollow \in flags}}

\* C1: handleBulkUnfollow never calls unfollowUser for a record that was
\* flagged mutual when the handler was called.
MutualNeverUnfollowed ==
  \A k \in DOMAIN bulkUnfollowCall.calls :
    bulkUnfollowCall.calls[k] \notin bulkUnfollowCall.mutualAtCall

\* A job over a list with a record flagged mutual has issued all its
\* unfollowUser calls.
MutualSparedByJob ==
  /\ BulkUnfollowSettledAll
  /\ bulkUnfollowCall.mutualAtCall # {}
  /\ Len(bulkUnfollowCall.calls) > 0

\* C2 (as stated): handleBulkUnfollow never calls unfollowUser for a record
\* whose mutual status was unresolved when the handler was called, i.e. for
\* which no reciprocity probe had been answered, as for a record fresh from
\* fetchData.
UnresolvedNeverUnfollowed ==
  \A k \in DOMAIN bulkUnfollowCall.calls :
    bulkUnfollowCall.calls[k] \notin bulkUnfollowCall.unresolvedAtCall

\* C3: the step that denies a bulk job (unfollow or unstar) issued no
\* unfollowUser or unstarRepository call before and leaves none to come, leaves
\* the local and the remote collections as they were, and sets the error to
\* the insufficient-quota message carrying the remaining quota just fetched;
\* the handler has returned after it.
DenialStep ==
  /\ (bulkUnfollowCall.pc = "quota"
        /\ lastJob' = Returned("handleBulkUnfollow", "denied", <<>>))
     => /\ bulkUnfollowCall.calls = <<>>
        /\ bulkUnfollowCall'.pc = "idle"
        /\ bulkUnfollowCall'.calls = <<>>
        /\ ~isBulkUnfollowing'
        /\ following' = following
        /\ remoteFollowing' = remoteFollowing
        /\ error'.kind = "insufficient"
        /\ error'.remaining = rateLimit'
        /\ rateLimit' \in quotaAnswers
  /\ (bulkUnstarCall.pc = "quota"
        /\ lastJob' = Returned("handleBulkUnstar", "denied", <<>>))
     => /\ bulkUnstarCall.calls = <<>>
        /\ bulkUnstarCall'.pc = "idle"
        /\ bulkUnstarCall'.calls = <<>>
        /\ ~isBulkUnstarring'
        /\ starredRepos' = starredRepos
        /\ remoteStarred' = remoteStarred
        /\ error'.kind = "insufficient"
        /\ error'.remaining = rateLimit'
        /\ rateLimit' \in quotaAnswers

DeniedJobsDoNothing == [][DenialStep]_vars

\* A bulk unfollow was denied: nothing is running, the list is intact and the
\* error carries the quota.
UnfollowJobDenied ==
  /\ lastJob = Returned("handleBulkUnfollow", "denied", <<>>)
  /\ error.kind = "insufficient"
  /\ Logins(following) = remoteFollowing
  /\ Len(following) > 0

\* C4: when getRateLimit answers a bulk job with remaining, the job is denied
\* if remaining < n + 10 and admitted otherwise, n being the number of
\* following records not flagged mutual (bulk unfollow) or the number of
\* starred repositories (bulk unstar).
AdmissionStep ==
  /\ (bulkUnfollowCall.pc = "quota" /\ faults' = faults
        /\ bulkUnfollowCall' # bulkUnfollowCall)
     => LET n == Cardinality(FlaggedLogins({FALSE}))
        IN  /\ (rateLimit' < n + 10) => bulkUnfollowCall'.pc = "idle"
            /\ (rateLimit' >= n + 10) =>
                 /\ bulkUnfollowCall'.pc = "batch"
                 /\ Len(bulkUnfollowCall'.calls) > 0
  /\ (bulkUnstarCall.pc = "quota" /\ faults' = faults
        /\ bulkUnstarCall' # bulkUnstarCall)
     => LET n == Len(starredRepos)
        IN  /\ (rateLimit' < n + 10) => bulkUnstarCall'.pc = "idle"
            /\ (rateLimit' >= n + 10) =>
                 /\ bulkUnstarCall'.pc = "batch"
                 /\ Len(bulkUnstarCall'.calls) > 0

AdmissionByFilteredCount == [][AdmissionStep]_vars

\* A bulk unfollow over a list with a mutual record was denied just below its
\* threshold, which counts the non-mutual records only.
DeniedJustBelowThreshold ==
  /\ lastJob = Returned("handleBulkUnfollow", "denied", <<>>)
  /\ rateLimit = nonMutualFollowsCount + 9
  /\ nonMutualFollowsCount < Len(following)
\* C5 (as stated): when an admitted bulk job has settled all its calls, it
\* holds one recorded outcome for every target.  The handlers record outcomes
\* in unfollowedUsers and unstarredRepos only.
EveryTargetHasOutcome ==
  /\ BulkUnfollowSettledAll =>
       Cardinality(bulkUnfollowCall.unfollowedUsers)
         = Len(bulkUnfollowCall.nonMutualUsers)
  /\ BulkUnstarSettledAll =>
       Cardinality(bulkUnstarCall.unstarredRepos)
         = Len(bulkUnstarCall.starredRepos)

\* C6 (as stated): when an admitted bulk job has settled all its calls, the
\* progress last reported has current = total.
LastProgressIsTotal ==
  /\ BulkUnfollowSettledAll =>
       bulkUnfollowProgress.current = bulkUnfollowProgress.total
  /\ BulkUnstarSettledAll =>
       bulkUnstarProgress.current = bulkUnstarProgress.total

\* s is t's beginning and holds no element twice.
IsPrefixOnce(s, t) ==
  /\ Len(s) <= Len(t)
  /\ s = SubSeq(t, 1, Len(s))
  /\ Cardinality(Range(s)) = Len(s)

\* C7: an admitted bulk job calls unfollowUser or unstarRepository once for
\* each target, in target order, whatever failed: the calls made are always
\* a beginning of the target list without repetition, and all of it when the
\* last batch has settled.
EveryTargetRequestedOnce ==
  /\ IsPrefixOnce(bulkUnfollowCall.calls, bulkUnfollowCall.nonMutualUsers)
  /\ IsPrefixOnce(bulkUnstarCall.calls, bulkUnstarCall.starredRepos)
  /\ BulkUnfollowSettledAll =>
       bulkUnfollowCall.calls = bulkUnfollowCall.nonMutualUsers
  /\ BulkUnstarSettledAll =>
       bulkUnstarCall.calls = bulkUnstarCall.starredRepos

\* A bulk unfollow of two batches has settled all its calls although the
\* first target's call failed.
SecondBatchAfterFailure ==
  /\ BulkUnfollowSettledAll
  /\ Len(bulkUnfollowCall.nonMutualUsers) > batchSize
  /\ bulkUnfollowCall.nonMutualUsers[1] \notin bulkUnfollowCall.unfollowedUsers
  /\ Len(bulkUnfollowCall.calls) = Len(bulkUnfollowCall.nonMutualUsers)

\* the position of entry r in list
Pos(list, r) == CHOOSE k \in DOMAIN list : list[k] = r

\* after is before without the entries whose key is in gone, in before's
\* order and without anything else; key maps an entry of before to its key
IsRemovalOf(after, before, gone, key) ==
  /\ Range(after) = {r \in Range(before) : key[r] \notin gone}
  /\ Cardinality(Range(after)) = Len(after)
  /\ \A a, b \in DOMAIN after :
       a < b => Pos(before, after[a]) < Pos(before, after[b])

\* C8: the step that completes an admitted bulk job turns the collection into
\* itself without the targets whose request succeeded, i.e. those the account
\* no longer follows (has no longer starred): failed targets and non-targets
\* stay, in their order, and nothing is added.
FoldStep ==
  /\ (bulkUnfollowCall.pc = "batch"
        /\ lastJob' = Returned("handleBulkUnfollow", "ok", <<>>))
     => IsRemovalOf(following', following,
                    Range(bulkUnfollowCall.nonMutualUsers)
                      \ Range(remoteFollowing),
                    [r \in Range(following) |-> r.login])
  /\ (bulkUnstarCall.pc = "batch"
        /\ lastJob' = Returned("handleBulkUnstar", "ok", <<>>))
     => IsRemovalOf(starredRepos', starredRepos,
                    Range(bulkUnstarCall.starredRepos) \ Range(remoteStarred),
                    [r \in Range(starredRepos) |-> r])

OnlySucceededTargetsRemoved == [][FoldStep]_vars

\* A bulk unfollow has completed: the first followed user is gone, a failed
\* target and a mutual record are still listed.
FoldKeptFailedAndMutual ==
  /\ lastJob = Returned("handleBulkUnfollow", "ok", <<>>)
  /\ FlaggedLogins({TRUE}) # {}
  /\ FlaggedLogins({FALSE}) # {}
  /\ following[1].login # 1
(***************************************************************************)
(* Properties of the collector.                                            *)
(***************************************************************************)
\* C9 (as stated): a load that returned asked for exactly ceil(N / perPage)
\* pages, 1, 2, ... in this order, N being the length of the remote list, and
\* the collection holds the N entries in the remote order.
CeilingPageRequests ==
  /\ (lastJob.op = "fetchData" /\ lastJob.result = "ok")
     => /\ lastJob.requests
             = Iota((Len(remoteFollowing) + perPage - 1) \div perPage)
        /\ Logins(following) = remoteFollowing
  /\ (lastJob.op = "fetchStarredRepos" /\ lastJob.result = "ok")
     => /\ lastJob.requests
             = Iota((Len(remoteStarred) + perPage - 1) \div perPage)
        /\ starredRepos = remoteStarred

\* C9 (amended): a load that returned asked for exactly floor(N / perPage) + 1
\* pages, 1, 2, ... in this order: ceil(N / perPage) pages when N is not a
\* multiple of perPage, and one more, an empty last page, when it is (N = 0
\* included); the collection holds the N entries in the remote order.
FloorPlusOnePageRequests ==
  /\ (lastJob.op = "fetchData" /\ lastJob.result = "ok")
     => /\ lastJob.requests = Iota(Len(remoteFollowing) \div perPage + 1)
        /\ Logins(following) = remoteFollowing
  /\ (lastJob.op = "fetchStarredRepos" /\ lastJob.result = "ok")
     => /\ lastJob.requests = Iota(Len(remoteStarred) \div perPage + 1)
        /\ starredRepos = remoteStarred

\* fetchData returned for an account that follows exactly two full pages of
\* users: it asked for three pages.
TwoFullPagesLoaded ==
  /\ lastJob.op = "fetchData" /\ lastJob.result = "ok"
  /\ Len(remoteFollowing) = 2 * perPage
  /\ Len(following) = 2 * perPage
  /\ Len(lastJob.requests) = 3

\* C10: the step in which a page request of a load fails ends the load: the
\* pages asked for are 1 up to the failed one and no more, the collection is
\* left as it was (nothing collected so far is shown), the error is set and
\* the loading flag cleared.
PageFailureStep ==
  /\ \A k \in 1..MaxLoads :
       (fetchDataCalls[k].pc = "page" /\ fetchDataCalls'[k].pc = "idle"
          /\ faults' # faults)
       => /\ following' = following
          /\ error'.kind = "request"
          /\ ~isLoading'
          /\ fetchDataCalls'[k].requests = <<>>
          /\ lastJob' = Returned("fetchData", "failed",
                                 Iota(fetchDataCalls[k].page))
  /\ (fetchStarredCall.pc = "page" /\ fetchStarredCall'.pc = "idle"
        /\ faults' # faults)
     => /\ starredRepos' = starredRepos
        /\ error'.kind = "request"
        /\ ~isLoadingStarred'
        /\ fetchStarredCall'.requests = <<>>
        /\ lastJob' = Returned("fetchStarredRepos", "failed",
                               Iota(fetchStarredCall.page))

PageFailureFailsLoad == [][PageFailureStep]_vars

\* A reload of a loaded following list failed at its second page or later:
\* the list is the one loaded before and the error is set.
ReloadFailedAtLaterPage ==
  /\ lastJob.op = "fetchData" /\ lastJob.result = "failed"
  /\ Len(lastJob.requests) >= 2
  /\ Len(following) > perPage
  /\ Logins(following) = remoteFollowing
  /\ error.kind = "request"
(***************************************************************************)
(* Properties of the mutual resolution.                                    *)
(***************************************************************************)
\* the records shown and the records a running checkMutualFollows has written
AnnotatedRecords == Range(following) \cup Range(checkCall.updatedFollowing)

\* C11: a record is flagged mutual only if its last reciprocity probe was
\* answered, with 204, for a user who follows the viewer; records fresh from
\* a load and records whose probe failed are not flagged.
MutualOnlyByTrueProbe ==
  \A r \in AnnotatedRecords :
    r.isMutualFollow => (r.probe = "answered" /\ r.login \in followsBack)

\* The list shows a record flagged mutual next to one whose probe failed.
MutualBesideFailedProbe ==
  /\ \E k \in DOMAIN following : following[k].isMutualFollow
  /\ \E k \in DOMAIN following : following[k].probe = "failed"

\* C12 (as stated): a record whose reciprocity probe failed (403, 429, 5xx,
\* network error) has its mutual flag unresolved: neither true nor false.
FailedProbeLeavesUnresolved ==
  \A r \in AnnotatedRecords :
    r.probe = "failed" => r.isMutualFollow \notin BOOLEAN

\* C13: the step that denies checkMutualFollows (it sets the
\* insufficient-quota error) has issued no probe and issues none, leaves
\* every following record as it was, and ends the run; the error carries the
\* remaining quota just fetched.
CheckDenialStep ==
  (checkCall.pc = "quota" /\ error'.kind = "insufficient")
  => /\ checkCall.probes = <<>>
     /\ checkCall'.pc = "idle"
     /\ checkCall'.probes = <<>>
     /\ checkCall'.pending = {}
     /\ following' = following
     /\ ~isCheckingMutualFollows'
     /\ error'.remaining = rateLimit'
     /\ lastJob' = Returned("checkMutualFollows", "denied", <<>>)

DeniedCheckProbesNothing == [][CheckDenialStep]_vars

\* checkMutualFollows was denied over a list that keeps its annotations of an
\* earlier run.
CheckDeniedOverAnnotatedList ==
  /\ lastJob = Returned("checkMutualFollows", "denied", <<>>)
  /\ error.kind = "insufficient"
  /\ \E k \in DOMAIN following : following[k].probe = "answered"
\* C14: when a bulk job completes with every target succeeded (the account
\* follows none of the targets any more, has starred none of them), the
\* collection it leaves holds no eligible target: every following record left
\* is flagged mutual, the starred list is empty, and the bulk button, the only
\* way to invoke the handler, is not rendered, so a second job issues nothing.
FullySucceededStep ==
  /\ (bulkUnfollowCall.pc = "batch"
        /\ lastJob' = Returned("handleBulkUnfollow", "ok", <<>>)
        /\ Range(bulkUnfollowCall.nonMutualUsers) \cap Range(remoteFollowing)
             = {})
     => /\ \A k \in DOMAIN following' : following'[k].isMutualFollow
        /\ ~BulkUnfollowShown'
  /\ (bulkUnstarCall.pc = "batch"
        /\ lastJob' = Returned("handleBulkUnstar", "ok", <<>>)
        /\ Range(bulkUnstarCall.starredRepos) \cap Range(remoteStarred) = {})
     => /\ starredRepos' = <<>>
        /\ ~BulkUnstarShown'

SecondBulkJobHasNoTarget == [][FullySucceededStep]_vars

\* A bulk unfollow completed with every target succeeded: only mutual records
\* are left and the button is gone.
OnlyMutualLeft ==
  /\ lastJob = Returned("handleBulkUnfollow", "ok", <<>>)
  /\ Len(following) > 0
  /\ \A k \in DOMAIN following : following[k].isMutualFollow
  /\ Logins(following) = remoteFollowing
  /\ ~BulkUnfollowShown

(***************************************************************************)
(* Properties of interleaved handlers.                                     *)
(***************************************************************************)
\* C15 (as stated): when checkMutualFollows writes its result while or after
\* handleUnfollow or handleBulkUnfollow removed entries, no removed entry
\* reappears: the write puts no login into the following list that the list
\* did not hold before the write.
CheckWriteRestoresNothing ==
  [][(checkCall.pc = "probing" /\ checkCall'.pc = "idle")
       => Range(Logins(following')) \subseteq Range(Logins(following))]_vars

(***************************************************************************)
(* Properties of the batches of the bulk jobs.                             *)
(***************************************************************************)
\* For a bulk job with the given targets and batch size: the requests
\* issued so far are the targets of the batches up to the current one, in
\* target order; the requests in flight belong to the current batch and are
\* at most size many; during the delay between two batches none is in
\* flight; before the admission no request is issued.
BatchDiscipline(c, targets, size) ==
  /\ c.pc \in {"idle", "quota"} => (c.calls = <<>> /\ c.pending = {})
  /\ c.pc \in {"batch", "delay"} =>
       /\ c.i % size = 0
       /\ c.i < Len(targets)
       /\ c.calls = SubSeq(targets, 1, Min(c.i + size, Len(targets)))
       /\ c.pending \subseteq (c.i + 1)..Len(c.calls)
       /\ Cardinality(c.pending) <= size
  /\ c.pc = "delay" => c.pending = {}

\* C16: handleBulkUnfollow and handleBulkUnstar issue their requests in
\* target order in consecutive batches of at most 5; at most 5 requests are
\* in flight, and no request of a batch is issued before every request of
\* the batch before it has settled, fulfilled or rejected.
BatchesOfFiveInOrder ==
  /\ batchSize = 5 /\ unstarBatchSize = 5
  /\ BatchDiscipline(bulkUnfollowCall, bulkUnfollowCall.nonMutualUsers,
                     batchSize)
  /\ BatchDiscipline(bulkUnstarCall, bulkUnstarCall.starredRepos,
                     unstarBatchSize)

\* The second batch of a bulk unstar is in flight after a call of the first
\* batch was rejected.
SecondUnstarBatchInFlight ==
  /\ bulkUnstarCall.pc = "batch"
  /\ bulkUnstarCall.i = unstarBatchSize
  /\ bulkUnstarCall.pending # {}
  /\ bulkUnstarCall.unstarredCount < unstarBatchSize

(***************************************************************************)
(* Properties of the admission decisions.                                  *)
(***************************************************************************)
\* The step of a handler in which its getRateLimit() is answered: no probe
\* or destructive request was issued before, the answer is what the service
\* reports now, and the handler goes on exactly if that answer passes the
\* handler's admission test.
FreshQuotaStep ==
  /\ (checkCall.pc = "quota" /\ faults' = faults /\ checkCall' # checkCall)
     => /\ checkCall.probes = <<>>
        /\ rateLimit' \in quotaAnswers
        /\ checkCall'.pc = "probing"
             <=> rateLimit' >= Len(checkCall.following) + mutualMargin
        /\ checkCall'.pc \in {"probing", "idle"}
  /\ (bulkUnfollowCall.pc = "quota" /\ faults' = faults
        /\ bulkUnfollowCall' # bulkUnfollowCall)
     => /\ bulkUnfollowCall.calls = <<>>
        /\ rateLimit' \in quotaAnswers
        /\ bulkUnfollowCall'.pc = "batch"
             <=> rateLimit' >= Len(bulkUnfollowCall.nonMutualUsers)
                                 + unfollowMargin
        /\ bulkUnfollowCall'.pc \in {"batch", "idle"}
  /\ (bulkUnstarCall.pc = "quota" /\ faults' = faults
        /\ bulkUnstarCall' # bulkUnstarCall)
     => /\ bulkUnstarCall.calls = <<>>
        /\ rateLimit' \in quotaAnswers
        /\ bulkUnstarCall'.pc = "batch"
             <=> rateLimit' >= Len(bulkUnstarCall.starredRepos) + unstarMargin
        /\ bulkUnstarCall'.pc \in {"batch", "idle"}
  /\ (unfollowCall.pc = "quota" /\ faults' = faults
        /\ unfollowCall' # unfollowCall)
     => /\ unfollowCall.calls = <<>>
        /\ rateLimit' \in quotaAnswers
        /\ unfollowCall'.pc = "unfollow" <=> rateLimit' >= singleMargin
        /\ unfollowCall'.pc \in {"unfollow", "idle"}
  /\ (unstarCall.pc = "quota" /\ faults' = faults /\ unstarCall' # unstarCall)
     => /\ unstarCall.calls = <<>>
        /\ rateLimit' \in quotaAnswers
        /\ unstarCall'.pc = "unstar" <=> rateLimit' >= singleMargin
        /\ unstarCall'.pc \in {"unstar", "idle"}

\* C17: checkMutualFollows, handleUnfollow, handleBulkUnfollow, handleUnstar
\* and handleBulkUnstar each decide their admission on the rate limit they
\* fetched themselves, after they started and before their first probe or
\* destructive request, never on the rateLimit state an earlier handler
\* stored.
AdmissionOnFreshQuota == [][FreshQuotaStep]_vars

\* handleUnfollow has called unfollowUser, admitted on the quota it fetched,
\* although the rateLimit state it was called with would have denied it.
AdmittedAgainstStoredQuota ==
  /\ unfollowCall.pc = "unfollow"
  /\ unfollowCall.rateLimitAtCall \in 0..(singleMargin - 1)
  /\ unfollowCall.calls = <<unfollowCall.target>>

(***************************************************************************)
(* Properties of the load.                                                 *)
(***************************************************************************)
\* C18 (as stated): the load is complete only after mutual resolution has
\* run over the following records it built: once fetchData has returned
\* with a loaded list and no handler or effect is left to run, every
\* following record has been probed.
LoadEndsWithResolution ==
  (/\ Quiescent
   /\ ~isLoading
   /\ lastJob.op = "fetchData"
   /\ lastJob.result = "ok"
   /\ Len(following) > 0)
  => \A k \in DOMAIN following : following[k].probe # "none"

(***************************************************************************)
(* Properties of the progress reports.                                     *)
(***************************************************************************)
\* C19 (as stated): a bulk job reports progress once for every target whose
\* request settles, fulfilled or rejected: the step in which a request of
\* the batch in flight settles raises the reported current by one, and
\* current never exceeds total.
ProgressStep ==
  /\ (/\ bulkUnfollowCall.pc = "batch"
      /\ bulkUnfollowCall'.pending # bulkUnfollowCall.pending
      /\ bulkUnfollowCall'.pending \subseteq bulkUnfollowCall.pending)
     => /\ bulkUnfollowProgress'.current = bulkUnfollowProgress.current + 1
        /\ bulkUnfollowProgress'.current <= bulkUnfollowProgress'.total
  /\ (/\ bulkUnstarCall.pc = "batch"
      /\ bulkUnstarCall'.pending # bulkUnstarCall.pending
      /\ bulkUnstarCall'.pending \subseteq bulkUnstarCall.pending)
     => /\ bulkUnstarProgress'.current = bulkUnstarProgress.current + 1
        /\ bulkUnstarProgress'.current <= bulkUnstarProgress'.total

ProgressOncePerSettledTarget == [][ProgressStep]_vars

(***************************************************************************)
(* Properties of the admission of checkMutualFollows.                      *)
(***************************************************************************)
\* The step in which checkMutualFollows, called over n records, decides on
\* the remaining quota just fetched: below n + margin it returns with the
\* insufficient-quota error and no probe; from n + margin on it issues the
\* probes of its first batch.
CheckAdmissionStep(margin) ==
  (checkCall.pc = "quota" /\ faults' = faults /\ checkCall' # checkCall)
  => LET n == Len(checkCall.following)
     IN  /\ rateLimit' < n + margin
              => /\ checkCall'.pc = "idle"
                 /\ checkCall'.probes = <<>>
                 /\ error' = Insufficient(rateLimit')
         /\ rateLimit' >= n + margin
              => /\ checkCall'.pc = "probing"
                 /\ Len(checkCall'.probes) = Min(n, mutualBatchSize)

\* C20 (as stated): checkMutualFollows over n records is denied if and only
\* if the remaining quota it fetched is below n + 10.
CheckDeniedBelowCountPlusTen == [][CheckAdmissionStep(10)]_vars

\* C20 (amended): checkMutualFollows over n records is denied if and only
\* if the remaining quota it fetched is below n + 50; from n + 50 on the
\* probes are issued.
CheckDeniedBelowCountPlusFifty == [][CheckAdmissionStep(50)]_vars

\* checkMutualFollows was denied with a remaining quota of at least n + 10.
CheckDeniedAboveCountPlusTen ==
  /\ lastJob = Returned("checkMutualFollows", "denied", <<>>)
  /\ error.kind = "insufficient"
  /\ error.remaining >= Len(following) + 10
  /\ Len(following) > 0

(***************************************************************************)
(* Properties of the rounds of checkMutualFollows.                         *)
(***************************************************************************)
\* C21: an admitted checkMutualFollows probes every record of its list
\* once, in list order, in consecutive rounds of at most 10; at most 10
\* probes are in flight, a round is probed only after every probe of the
\* round before it has settled, and whatever the order in which the probes
\* of a round settle, each answer is written at the position of the record
\* it was asked for, the records not yet answered being left as they were.
RoundsOfTenInPlace ==
  LET c == checkCall
      n == Len(c.following)
  IN  /\ c.pc \in {"idle", "quota"} => (c.probes = <<>> /\ c.pending = {})
      /\ c.pc \in {"probing", "delay"} =>
           /\ c.i % 10 = 0
           /\ c.i < n
           /\ Len(c.probes) = Min(c.i + 10, n)
           /\ \A k \in DOMAIN c.probes : c.probes[k] = c.following[k].login
           /\ c.pending \subseteq (c.i + 1)..Len(c.probes)
           /\ Cardinality(c.pending) <= 10
           /\ Len(c.updatedFollowing) = n
           /\ \A k \in 1..n :
                LET r == c.updatedFollowing[k]
                IN  /\ r.login = c.following[k].login
                    /\ (k \in c.pending \/ k > Len(c.probes))
                         => r = c.following[k]
                    /\ (k \in 1..Len(c.probes) \ c.pending)
                         => /\ r.probe # "none"
                            /\ r.probe = "answered" =>
                                 (r.isMutualFollow <=> r.login \in followsBack)
      /\ c.pc = "delay" => c.pending = {}

\* The second round of a check is in flight; in the first round the probe of
\* the second record was answered with a follow and another probe failed.
SecondRoundInFlight ==
  /\ checkCall.pc = "probing"
  /\ checkCall.i = 10
  /\ checkCall.pending # {}
  /\ checkCall.updatedFollowing[2].isMutualFollow
  /\ \E k \in 1..10 : checkCall.updatedFollowing[k].probe = "failed"

(***************************************************************************)
(* Properties of the delays between batches.                               *)
(***************************************************************************)
\* For a bulk job over n targets in batches of size: while batch number
\* k + 1 is in flight, k delays have been started; a delay is started only
\* with a batch left, after every request of the batch before it settled and
\* before any request of the batch after it is issued; when the last batch
\* has settled, ceil(n / size) - 1 delays have been started.
DelayDiscipline(c, n, size) ==
  /\ c.pc \in {"idle", "quota"} => c.delays = 0
  /\ c.pc = "batch" => c.delays = c.i \div size
  /\ c.pc = "delay" =>
       /\ c.delays = (c.i \div size) + 1
       /\ c.pending = {}
       /\ c.i + size < n
       /\ Len(c.calls) = c.i + size
  /\ (c.pc = "batch" /\ c.pending = {} /\ c.i + size >= n)
       => c.delays = ((n + size - 1) \div size) - 1

\* C22: an admitted bulk job of b = ceil(n/5) batches observes the delay
\* between batches b - 1 times: after every batch that is followed by
\* another, once all its requests settled and before the next batch starts,
\* and never after the last batch.
DelayBetweenBatchesOnly ==
  /\ DelayDiscipline(bulkUnfollowCall, Len(bulkUnfollowCall.nonMutualUsers), 5)
  /\ DelayDiscipline(bulkUnstarCall, Len(bulkUnstarCall.starredRepos), 5)

\* A bulk unfollow of two batches has settled its last batch after one
\* delay.
TwoBatchesOneDelay ==
  /\ BulkUnfollowSettledAll
  /\ Len(bulkUnfollowCall.nonMutualUsers) > 5
  /\ bulkUnfollowCall.delays = 1

(***************************************************************************)
(* Properties of the life of a bulk job.                                   *)
(***************************************************************************)
\* The steps of a bulk job c: idle to admitting, admitting to running or,
\* on a denial or a failed quota fetch, to idle, running to the delay or to
\* idle, the delay to running.
JobStep(before, after) ==
  \/ after = before
  \/ before = "idle" /\ after = "quota"
  \/ before = "quota" /\ after \in {"batch", "idle"}
  \/ before = "batch" /\ after \in {"batch", "delay", "idle"}
  \/ before = "delay" /\ after = "batch"

\* C23: a bulk job goes from idle through its admission and its batches
\* and, every request returning or failing, eventually completes; whenever
\* no job is running, on whatever path the last one ended, its busy flag is
\* cleared and its progress is 0/0; a completed job takes no further step.
BulkJobsComplete ==
  /\ [][/\ JobStep(bulkUnfollowCall.pc, bulkUnfollowCall'.pc)
        /\ JobStep(bulkUnstarCall.pc, bulkUnstarCall'.pc)]_vars
  /\ [](bulkUnfollowCall.pc = "idle"
         => /\ ~isBulkUnfollowing
            /\ bulkUnfollowProgress = [current |-> 0, total |-> 0])
  /\ [](bulkUnstarCall.pc = "idle"
         => /\ ~isBulkUnstarring
            /\ bulkUnstarProgress = [current |-> 0, total |-> 0])
  /\ (bulkUnfollowCall.pc # "idle") ~> (bulkUnfollowCall.pc = "idle")
  /\ (bulkUnstarCall.pc # "idle") ~> (bulkUnstarCall.pc = "idle")

\* A bulk unstar whose quota fetch failed has completed.
UnstarJobEndedOnFailedQuota ==
  /\ lastJob = Returned("handleBulkUnstar", "failed", <<>>)
  /\ bulkUnstarCall.pc = "idle"
  /\ ~isBulkUnstarring
  /\ error = RequestError

(***************************************************************************)
(* Properties of refused probes.                                           *)
(***************************************************************************)
\* A step of checkMutualFollows after one of its probes was refused (403 or
\* 429): it issues no further probe, and it ends the call with the failure
\* as the error and without writing the following list.
RefusedProbeStep ==
  (checkCall.pc \in {"probing", "delay"} /\ checkCall.refused # {})
  => /\ checkCall'.probes \in {checkCall.probes, <<>>}
     /\ checkCall'.pc = "idle"
          => /\ error'.kind = "request"
             /\ following' = following
             /\ lastJob'.result = "failed"

\* C24 (as stated): a probe refused because the credential is forbidden or
\* the quota is rate-limited aborts checkMutualFollows: no further round is
\* probed, the failure is surfaced as the error of the whole call, and no
\* answer is recorded for the refused probe.
RefusedProbeAbortsCheck == [][RefusedProbeStep]_vars

(***************************************************************************)
(* Properties of the viewer key.                                           *)
(***************************************************************************)
\* C25: every probe of checkMutualFollows is keyed by the login of the
\* current user: whenever a call is running, on the first load, after a
\* failed refresh or beside a load in flight, the key its service probes
\* with is that login and not the fallback "me".
ProbesKeyedByViewer ==
  checkCall.pc # "idle"
  => /\ checkCall.viewerKey # "me"
     /\ checkCall.viewerKey = currentUser
     /\ currentUser # ""

\* The probes of a check are in flight while a fetchData call is running
\* and after a request has failed.
ProbesBesideLoad ==
  /\ checkCall.pc = "probing"
  /\ checkCall.pending # {}
  /\ \E k \in 1..MaxLoads : fetchDataCalls[k].pc # "idle"
  /\ faults > 0

(***************************************************************************)
(* Properties of the automatic check.                                      *)
(***************************************************************************)
\* C26 (as stated): every fetchData call that returns with a non-empty
\* following list is followed by a run of checkMutualFollows, without any
\* action of the user.
LoadLeadsToCheck ==
  (lastJob.op = "fetchData" /\ lastJob.result = "ok" /\ Len(following) > 0)
    ~> isCheckingMutualFollows

(***************************************************************************)
(* Properties of the load on mount.                                        *)
(***************************************************************************)
\* C27 (as stated): mounting the Dashboard runs fetchData once: at most one
\* fetchData call is in flight at any moment, the user starting a refresh
\* only when nothing is running.
SingleLoadOnMount ==
  Cardinality({k \in 1..MaxLoads : fetchDataCalls[k].pc # "idle"}) <= 1

(***************************************************************************)
(* Properties of handleUnfollow.                                           *)
(***************************************************************************)
\* A step of handleUnfollow: a call goes on to its quota fetch only for a
\* record not flagged mutual, and the step that rejects a request for a
\* record flagged mutual leaves the following list, the set of unfollows
\* under way, the error, the rate limit state and the account as they were.
UnfollowRequestStep ==
  /\ (unfollowCall.pc = "idle" /\ unfollowCall'.pc = "quota")
     => \A k \in DOMAIN following :
          following[k].login = unfollowCall'.target
            => ~following[k].isMutualFollow
  /\ (lastJob' = Returned("handleUnfollow", "rejected", <<>>)
        /\ lastJob' # lastJob)
     => /\ unfollowCall' = IdleSingle
        /\ UNCHANGED <<following, unfollowingUsers, error, rateLimit,
                       remoteFollowing, unfollowCall>>

\* C28: handleUnfollow for a record flagged mutual is rejected before
\* anything happens: no getRateLimit and no unfollowUser call is issued, and
\* the following list, unfollowingUsers and the error are left unchanged.
MutualUnfollowRejected ==
  /\ [][UnfollowRequestStep]_vars
  /\ [](unfollowCall.pc # "idle"
         => \A k \in DOMAIN following :
              following[k].login = unfollowCall.target
                => ~following[k].isMutualFollow)

\* A request to unfollow a user flagged mutual was rejected while an error
\* of an earlier handler is shown.
RejectedOnMutualCard ==
  /\ lastJob = Returned("handleUnfollow", "rejected", <<>>)
  /\ \E k \in DOMAIN following : following[k].isMutualFollow
  /\ error # NoError

(***************************************************************************)
(* Properties of the buttons that start the bulk jobs.                     *)
(***************************************************************************)
\* C29: at most one bulk unfollow job and one bulk unstar job run at a time:
\* from the confirmation of a job to its end the button that starts a job
\* of its kind is not offered, and the Bulk Unfollow button is not offered
\* while a run of checkMutualFollows is in progress.
OneJobOfAKind ==
  /\ bulkUnfollowCall.pc # "idle"
       => isBulkUnfollowing /\ ~BulkUnfollowShown
  /\ bulkUnstarCall.pc # "idle"
       => isBulkUnstarring /\ ~BulkUnstarShown
  /\ checkCall.pc # "idle"
       => isCheckingMutualFollows /\ ~BulkUnfollowShown

\* A bulk unfollow job is between two batches, users that do not follow
\* back are still listed on the shown following tab and no check is running:
\* only isBulkUnfollowing hides the Bulk Unfollow button.
JobRunningBesideTargets ==
  /\ bulkUnfollowCall.pc = "delay"
  /\ DashboardShown
  /\ activeTab = "following"
  /\ nonMutualFollowsCount > 0
  /\ ~isCheckingMutualFollows

(***************************************************************************)
(* Properties of a bulk unfollow beside a check.                           *)
(***************************************************************************)
\* the logins unfollowUser is called with in the step
IssuedInStep ==
  {bulkUnfollowCall'.calls[k] :
     k \in (Len(bulkUnfollowCall.calls) + 1)..Len(bulkUnfollowCall'.calls)}

\* C30 (as stated): whatever check runs beside a bulk unfollow job, no
\* batch of the job calls unfollowUser for a user whose record in the
\* following list is flagged mutual when the call is issued.
NoUnfollowOfFlaggedMutual ==
  [][bulkUnfollowCall'.pc # "idle"
       => \A k \in DOMAIN following :
            following[k].login \in IssuedInStep
              => ~following[k].isMutualFollow]_vars

====
